---- MODULE Spec2Model ----
(***************************************************************************)
(* A model of Dicom-Tools-py's anonymization transform                     *)
(* (DICOM_reencoder/anonymize_dicom.py), of its pixel helpers              *)
(* (DICOM_reencoder/core/images.py) and of its batch and organize          *)
(* commands: Spec runs calls of anonymize_dicom, ImagesSpec one call of a  *)
(* pixel helper, WideSpec one call of window_frame on samples that use     *)
(* the range of their type, ThreadsSpec two invocations in the threads of  *)
(* one process, BatchSpec a run of batch_process.py over a list of files,  *)
(* OrganizeSpec a run of organize_dicom.py over a source directory.        *)
(*                                                                         *)
(* A dataset is a function from the keywords of the elements it holds to   *)
(* their values: `tag in dataset` is tag \in DOMAIN ds, delattr restricts  *)
(* the domain.  Values of DA elements are sequences of one-character       *)
(* strings, so that strptime and strftime are modelled character by        *)
(* character; values of every other element are strings.  SHA-256 is a     *)
(* symbolic, collision-free function of its argument.  Python's str hash   *)
(* is randomized per interpreter process: each process draws it lazily,    *)
(* one value per string, and keeps it.                                     *)
(***************************************************************************)
EXTENDS Integers, Sequences, FiniteSets, TLC

VARIABLES
    disk,       \* path -> dataset: the DICOM files that exist
    meta,       \* path -> the file meta information of the file
    strHash,    \* process -> (string -> hash(string) % 365), as drawn so far
    calls,      \* the completed calls of anonymize_dicom, in order
    image,      \* the dataset handed to the pixel helpers of core/images.py
    build,      \* the platform: its out-of-range float -> uint8 cast, its %Y
    outcome,    \* the completed call of a pixel helper, <<>> before it
    threads,    \* thread -> the invocation it runs, its position and result
    locals,     \* frame -> the local variables of the invocation that owns it
    batch       \* a run over a list of files: the list, the position, the counts

vars == <<disk, meta, strHash, calls, image, build, outcome, threads, locals, batch>>
anonVars == <<disk, meta, strHash, calls>>
imageVars == <<image, build, outcome>>
threadVars == <<threads, locals>>

-----------------------------------------------------------------------------
(* Bounds *)

MaxCalls == 2       \* calls of anonymize_dicom in one behaviour
MaxProcs == 2       \* interpreter processes

-----------------------------------------------------------------------------
(* Python values *)

\* None as a return value / a dataset as a return value.
None == [ok |-> FALSE, ds |-> <<>>]
Returned(ds) == [ok |-> TRUE, ds |-> ds]

\* A path is <<base, ext>>, the pair os.path.splitext gives.
NoOutputArg == <<>>

Digits == <<"0", "1", "2", "3", "4", "5", "6", "7", "8", "9">>
DigitChars == {Digits[i] : i \in 1..10}
DigitValue == [c \in DigitChars |-> (CHOOSE i \in 1..10 : Digits[i] = c) - 1]
IsDigit(c) == c \in DigitChars
DigitVal(c) == DigitValue[c]
DigitChar(n) == Digits[n + 1]

Min(S) == CHOOSE x \in S : \A y \in S : x <= y

-----------------------------------------------------------------------------
(* datetime: strptime(value, '%Y%m%d'), date - timedelta, strftime('%Y%m%d') *)

IsLeap(y) == y % 4 = 0 /\ (y % 100 # 0 \/ y % 400 = 0)

DaysInMonth(y, m) ==
    CASE m \in {1, 3, 5, 7, 8, 10, 12} -> 31
      [] m \in {4, 6, 9, 11} -> 30
      [] OTHER -> IF IsLeap(y) THEN 29 ELSE 28

\* The days of the year before month m, in a common year.
DaysBeforeMonthTable == <<0, 31, 59, 90, 120, 151, 181, 212, 243, 273, 304, 334>>

DaysBeforeMonth(y, m) ==
    DaysBeforeMonthTable[m] + (IF m > 2 /\ IsLeap(y) THEN 1 ELSE 0)

DaysBeforeYear(y) ==
    (y - 1) * 365 + (y - 1) \div 4 - (y - 1) \div 100 + (y - 1) \div 400

\* date.toordinal(): 0001-01-01 is day 1.
ToOrdinal(y, m, d) == DaysBeforeYear(y) + DaysBeforeMonth(y, m) + d

\* date.fromordinal(n), n >= 1.
FromOrdinal(n) ==
    LET n0   == n - 1
        n400 == n0 \div 146097
        r400 == n0 % 146097
        n100 == r400 \div 36524
        r100 == r400 % 36524
        n4   == r100 \div 1461
        r4   == r100 % 1461
        n1   == r4 \div 365
        r1   == r4 % 365
        year == n400 * 400 + 1 + n100 * 100 + n4 * 4 + n1
    IN  IF n1 = 4 \/ n100 = 4
        THEN [y |-> year - 1, m |-> 12, d |-> 31]
        ELSE LET month == CHOOSE m \in 1..12 :
                              /\ DaysBeforeMonth(year, m) <= r1
                              /\ r1 < DaysBeforeMonth(year, m) + DaysInMonth(year, m)
             IN  [y |-> year, m |-> month, d |-> r1 - DaysBeforeMonth(year, month) + 1]

\* The alternatives of the %m and %d directives that match s at position i,
\* in the order the regular expression tries them: <<length, value>>.
Ch(s, i) == IF i <= Len(s) THEN s[i] ELSE ""

MonthAlts(s, i) ==
    LET a == Ch(s, i)
        b == Ch(s, i + 1)
    IN  (IF a = "1" /\ b \in {"0", "1", "2"} THEN <<<<2, 10 + DigitVal(b)>>>> ELSE <<>>)
        \o (IF a = "0" /\ IsDigit(b) /\ b # "0" THEN <<<<2, DigitVal(b)>>>> ELSE <<>>)
        \o (IF IsDigit(a) /\ a # "0" THEN <<<<1, DigitVal(a)>>>> ELSE <<>>)

DayAlts(s, i) ==
    LET a == Ch(s, i)
        b == Ch(s, i + 1)
    IN  (IF a = "3" /\ b \in {"0", "1"} THEN <<<<2, 30 + DigitVal(b)>>>> ELSE <<>>)
        \o (IF a \in {"1", "2"} /\ IsDigit(b)
            THEN <<<<2, 10 * DigitVal(a) + DigitVal(b)>>>> ELSE <<>>)
        \o (IF a = "0" /\ IsDigit(b) /\ b # "0" THEN <<<<2, DigitVal(b)>>>> ELSE <<>>)
        \o (IF IsDigit(a) /\ a # "0" THEN <<<<1, DigitVal(a)>>>> ELSE <<>>)
        \o (IF a = " " /\ IsDigit(b) /\ b # "0" THEN <<<<2, DigitVal(b)>>>> ELSE <<>>)

\* datetime.strptime(s, '%Y%m%d'): [ok |-> FALSE] stands for ValueError.
\* The value must be a string: a sequence of characters.
ValueError == [ok |-> FALSE, y |-> 0, m |-> 0, d |-> 0]

strptime(s) ==
    IF Len(s) < 4 \/ \E i \in 1..4 : ~IsDigit(s[i])
    THEN ValueError
    ELSE LET year == 1000 * DigitVal(s[1]) + 100 * DigitVal(s[2])
                     + 10 * DigitVal(s[3]) + DigitVal(s[4])
             ms   == MonthAlts(s, 5)
             ok   == {k \in 1..Len(ms) : DayAlts(s, 5 + ms[k][1]) # <<>>}
         IN  IF ok = {}
             THEN ValueError
             ELSE LET mon == ms[Min(ok)]
                      day == DayAlts(s, 5 + mon[1])[1]
                  IN  IF \/ 4 + mon[1] + day[1] # Len(s)       \* unconverted data remains
                         \/ year < 1                           \* year out of range
                         \/ day[2] > DaysInMonth(year, mon[2]) \* day out of range
                      THEN ValueError
                      ELSE [ok |-> TRUE, y |-> year, m |-> mon[2], d |-> day[2]]

\* The decimal digits of n, without leading zeros.
RECURSIVE DecimalChars(_)
DecimalChars(n) ==
    IF n < 10 THEN <<DigitChar(n)>>
    ELSE DecimalChars(n \div 10) \o <<DigitChar(n % 10)>>

\* %Y of strftime is the C library's: four digits where it pads the year
\* with zeros, the digits of the year alone where it does not (glibc).
YearFormats == {"padded", "unpadded"}
YearChars(y) ==
    IF build.year = "unpadded" THEN DecimalChars(y)
    ELSE <<DigitChar(y \div 1000), DigitChar((y \div 100) % 10),
           DigitChar((y \div 10) % 10), DigitChar(y % 10)>>

\* strftime('%Y%m%d') of a date.
strftime(date) ==
    YearChars(date.y)
    \o <<DigitChar(date.m \div 10), DigitChar(date.m % 10),
         DigitChar(date.d \div 10), DigitChar(date.d % 10)>>

\* f"{age:03d}Y"
RECURSIVE DecimalStr(_)
DecimalStr(n) ==
    IF n < 10 THEN DigitChar(n) ELSE DecimalStr(n \div 10) \o DigitChar(n % 10)

FormatAge(age) ==
    (IF age < 0 THEN "-" ELSE "")
    \o (IF 0 <= age /\ age < 100 THEN "0" ELSE "")
    \o (IF -10 < age /\ age < 10 THEN "0" ELSE "")
    \o DecimalStr(IF age < 0 THEN -age ELSE age) \o "Y"

-----------------------------------------------------------------------------
(* anonymize_dicom.py *)

YearDays == 365         \* age = days // 365
HashModulus == 365      \* date_offset_days = hash(original_patient_id) % 365

\* hashlib.sha256(str(original_id).encode()).hexdigest()[:16].upper(),
\* as a symbolic function without collisions.
generate_anonymous_id(original_id) == "SHA16(" \o original_id \o ")"

\* The elements whose value representation is DA.
date_tags ==
    <<"StudyDate", "SeriesDate", "AcquisitionDate", "ContentDate",
      "InstanceCreationDate", "PerformedProcedureStepStartDate">>

Range(seq) == {seq[i] : i \in 1..Len(seq)}

DateTagSet == Range(date_tags)

DAKeywords == DateTagSet \cup {"PatientBirthDate"}

\* The empty string '' as the value of element tag.
Empty(tag) == IF tag \in DAKeywords THEN <<>> ELSE ""

patient_tags ==
    <<"PatientName", "PatientID", "PatientBirthDate", "PatientSex", "PatientAge",
      "PatientWeight", "PatientSize", "PatientAddress", "PatientTelephoneNumbers",
      "PatientMotherBirthName", "MilitaryRank", "EthnicGroup", "Occupation",
      "AdditionalPatientHistory", "PatientComments", "ResponsiblePerson",
      "ResponsibleOrganization">>

PatientTagSet == Range(patient_tags)

\* Mutant: the values of PatientName and PatientID are exchanged in the table.
patient_tags_exchanged(tag, anonymous_id) ==
    CASE tag = "PatientName" -> anonymous_id
      [] tag = "PatientID" -> "ANONYMOUS^PATIENT"
      [] OTHER -> Empty(tag)

\* The value the table holds for tag.
patient_tags_to_anonymize(tag, anonymous_id) ==
    CASE tag = "PatientName" -> "ANONYMOUS^PATIENT"
      [] tag = "PatientID" -> anonymous_id
      [] OTHER -> Empty(tag)

study_tags ==
    <<"ReferringPhysicianName", "ReferringPhysicianAddress",
      "ReferringPhysicianTelephoneNumbers",
      "ReferringPhysicianIdentificationSequence", "PhysiciansOfRecord",
      "PerformingPhysicianName", "OperatorsName", "InstitutionName",
      "InstitutionAddress", "InstitutionalDepartmentName", "StationName">>

\* "None" stands for the table's None: the element is deleted.
DeleteMark == "None"

StudyTagSet == Range(study_tags)

study_tags_to_anonymize ==
    [tag \in StudyTagSet |->
        CASE tag \in {"ReferringPhysicianName", "PhysiciansOfRecord",
                      "PerformingPhysicianName", "OperatorsName",
                      "InstitutionName"} -> "ANONYMIZED"
          [] tag = "ReferringPhysicianIdentificationSequence" -> DeleteMark
          [] OTHER -> ""]

uid_tags_to_regenerate ==
    <<"StudyInstanceUID", "SeriesInstanceUID", "SOPInstanceUID">>

UidTagSet == Range(uid_tags_to_regenerate)

UIDRoot == "1.2.826.0.1.3680043.8.498."

tags_to_remove ==
    <<"AccessionNumber", "IssuerOfPatientID", "OtherPatientIDs",
      "OtherPatientNames", "PatientBirthName",
      "PatientInsurancePlanCodeSequence", "PatientPrimaryLanguageCodeSequence",
      "RequestingPhysician", "RequestingService", "RequestAttributesSequence",
      "ScheduledProcedureStepDescription", "PerformedProcedureStepDescription">>

RemoveTagSet == Range(tags_to_remove)

\* Elements with an odd group number, as keywords of their own.
PrivateTags == {"(0009,0010)", "(0009,1001)"}

\* Dataset operations.
SetAttr(ds, tag, value) ==
    [t \in DOMAIN ds \cup {tag} |-> IF t = tag THEN value ELSE ds[t]]
Get(ds, tag, default) == IF tag \in DOMAIN ds THEN ds[tag] ELSE default

\* lines 46-48
OriginalPatientId(ds) == Get(ds, "PatientID", "UNKNOWN")
\* Mutant: the pseudonym holds the identifier itself.
AnonymousId_unhashed(patient_prefix, original_patient_id) ==
    patient_prefix \o "_" \o original_patient_id

AnonymousId(patient_prefix, original_patient_id) ==
    patient_prefix \o "_" \o generate_anonymous_id(original_patient_id)

\* Mutant: PatientBirthDate is missing from the table.
AnonymizePatientTags_keeping_birth_date(ds, anonymous_id) ==
    [t \in DOMAIN ds |->
        IF t \in PatientTagSet \ {"PatientBirthDate"}
        THEN patient_tags_to_anonymize(t, anonymous_id)
        ELSE ds[t]]

\* lines 71-75: every element of the table that the dataset holds is rewritten.
AnonymizePatientTags(ds, anonymous_id) ==
    [t \in DOMAIN ds |->
        IF t \in PatientTagSet
        THEN patient_tags_to_anonymize(t, anonymous_id)
        ELSE ds[t]]

\* lines 78-85: the age from the two dates the dataset holds at this point.
\* The bare except swallows the ValueError of strptime: nothing is raised.
PreserveAge(ds) ==
    IF "PatientBirthDate" \in DOMAIN ds /\ "StudyDate" \in DOMAIN ds
    THEN LET birth_date == strptime(ds["PatientBirthDate"])
             study_date == strptime(ds["StudyDate"])
         IN  IF birth_date.ok /\ study_date.ok
             THEN LET days == ToOrdinal(study_date.y, study_date.m, study_date.d)
                              - ToOrdinal(birth_date.y, birth_date.m, birth_date.d)
                  IN  [raised |-> FALSE,
                       ds |-> SetAttr(ds, "PatientAge", FormatAge(days \div YearDays))]
             ELSE [raised |-> FALSE, ds |-> ds]
    ELSE [raised |-> FALSE, ds |-> ds]

\* Mutant: ReferringPhysicianIdentificationSequence is emptied, not deleted.
AnonymizeStudyTags_emptying(ds) ==
    [t \in DOMAIN ds |->
        IF t \in StudyTagSet
        THEN (IF study_tags_to_anonymize[t] = DeleteMark THEN ""
              ELSE study_tags_to_anonymize[t])
        ELSE ds[t]]

\* lines 102-109
AnonymizeStudyTags(ds) ==
    [t \in {k \in DOMAIN ds :
                ~(k \in StudyTagSet /\ study_tags_to_anonymize[k] = DeleteMark)} |->
        IF t \in StudyTagSet THEN study_tags_to_anonymize[t] ELSE ds[t]]

\* Mutant: the offset is added.
ShiftedValue_forward(value, date_offset_days) ==
    LET original_date == strptime(value)
    IN  IF ~original_date.ok
        THEN [raised |-> TRUE, value |-> value]
        ELSE [raised |-> FALSE,
              value |-> strftime(FromOrdinal(
                  ToOrdinal(original_date.y, original_date.m, original_date.d)
                  + date_offset_days))]

\* lines 123-125, the body of the try: the new value, or an exception
\* (ValueError of strptime, OverflowError of a date before 0001-01-01).
ShiftedValue(value, date_offset_days) ==
    LET original_date == strptime(value)
    IN  IF ~original_date.ok
        THEN [raised |-> TRUE, value |-> value]
        ELSE LET n == ToOrdinal(original_date.y, original_date.m, original_date.d)
                      - date_offset_days
             IN  IF n < 1
                 THEN [raised |-> TRUE, value |-> value]
                 ELSE [raised |-> FALSE, value |-> strftime(FromOrdinal(n))]

\* Mutant: no except around the shift of a date.
ShiftDate_unguarded(value, date_offset_days) ==
    ShiftedValue(value, date_offset_days)

\* lines 122-128: the try with its bare except, which empties the element.
ShiftDate(value, date_offset_days) ==
    LET tried == ShiftedValue(value, date_offset_days)
    IN  IF tried.raised THEN [raised |-> FALSE, value |-> <<>>] ELSE tried

\* lines 120-128
ShiftDates(ds, date_offset_days) ==
    CHOOSE result \in
        {[raised |-> \E t \in DOMAIN ds : new[t].raised,
          ds |-> [t \in DOMAIN ds |-> new[t].value]] : new \in
            {[t \in DOMAIN ds |->
                IF t \in DateTagSet /\ ds[t] # <<>>
                THEN ShiftDate(ds[t], date_offset_days)
                ELSE [raised |-> FALSE, value |-> ds[t]]]}} :
        TRUE

\* Mutant: the seed of a new UID is the original UID alone.
NewUid_unseeded(anonymous_id, original_uid) ==
    UIDRoot \o generate_anonymous_id(original_uid)

\* lines 139-148
NewUid(anonymous_id, original_uid) ==
    UIDRoot \o generate_anonymous_id(anonymous_id \o "_" \o original_uid)

\* Mutant: every new UID is seeded with the SOPInstanceUID.
RegenerateUids_from_instance(ds, anonymous_id) ==
    [t \in DOMAIN ds |->
        IF t \in UidTagSet
        THEN NewUid(anonymous_id, Get(ds, "SOPInstanceUID", ""))
        ELSE ds[t]]

RegenerateUids(ds, anonymous_id) ==
    [t \in DOMAIN ds |->
        IF t \in UidTagSet
        THEN NewUid(anonymous_id, ds[t])
        ELSE ds[t]]

\* Mutant: the elements of the list are emptied, not deleted.
RemoveTags_emptying(ds) ==
    [t \in DOMAIN ds |-> IF t \in RemoveTagSet THEN "" ELSE ds[t]]

\* lines 166-169
RemoveTags(ds) == [t \in DOMAIN ds \ RemoveTagSet |-> ds[t]]

\* line 172
RemovePrivateTags(ds) == [t \in DOMAIN ds \ PrivateTags |-> ds[t]]

\* A step that raises nothing, applied to the outcome of the steps before it.
Continue(before, ds) == [raised |-> before.raised, ds |-> ds]
Join(before, after) == [raised |-> before.raised \/ after.raised, ds |-> after.ds]

\* lines 46-172: the dataset that reaches save_as, for the value of
\* hash(original_patient_id) % 365 that this process gives; ok is FALSE when
\* a step raised an exception that reaches the handler of line 187.  Each
\* step works on the dataset the step before it left.
Transform(ds, patient_prefix, date_offset_days) ==
    CHOOSE result \in
        {[ok |-> ~d8.raised, ds |-> d8.ds] : d8 \in
          {Continue(d7, RemovePrivateTags(d7.ds)) : d7 \in
            {Continue(d6, RemoveTags(d6.ds)) : d6 \in
              {Continue(d5, RegenerateUids(d5.ds,
                    AnonymousId(patient_prefix, OriginalPatientId(ds)))) : d5 \in
                {Join(d4, ShiftDates(d4.ds, date_offset_days)) : d4 \in
                  {Continue(d3, AnonymizeStudyTags(d3.ds)) : d3 \in
                    {PreserveAge(d2) : d2 \in
                      {AnonymizePatientTags(ds,
                          AnonymousId(patient_prefix, OriginalPatientId(ds)))}}}}}}}} :
        TRUE

DefaultOutput_in_place(input_file) == input_file

\* lines 39-41
DefaultOutput(input_file) == <<input_file[1] \o "_anonymized", input_file[2]>>

-----------------------------------------------------------------------------
(* The files of a behaviour *)

PatternModulus == 3     \* presence patterns: none, all, all but one residue class

PatientIds == {"P1", "P2"}
Prefixes == {"ANON", "SITE"}
OffsetSamples == {0, 1, HashModulus - 1}
Variants == {1, 2}

\* Elements the transform does not name.
OtherTags == <<"Modality", "Rows">>

KeywordOrder ==
    date_tags \o patient_tags \o study_tags \o uid_tags_to_regenerate
    \o tags_to_remove \o <<"(0009,0010)", "(0009,1001)">> \o OtherTags

Keywords == Range(KeywordOrder)

Index == [tag \in Keywords |-> CHOOSE i \in 1..Len(KeywordOrder) : KeywordOrder[i] = tag]

\* Pattern r < PatternModulus holds every element but those of residue r;
\* the last two patterns hold every element and none.
Patterns == 0..PatternModulus + 1

Holds(pattern, tag) ==
    CASE pattern = PatternModulus + 1 -> FALSE
      [] pattern = PatternModulus -> TRUE
      [] OTHER -> Index[tag] % PatternModulus # pattern

DateSample(tag, v) ==
    CASE tag = "PatientBirthDate" ->
            IF v = 1 THEN <<"1", "9", "8", "0", "0", "1", "0", "1">>
                     ELSE <<"1", "9", "8", "0">>
      [] tag = "StudyDate" ->
            IF v = 1 THEN <<"2", "0", "2", "0", "0", "1", "0", "1">>
                     ELSE <<"2", "0", "2", "1", "0", "6", "1", "5">>
      [] tag = "SeriesDate" ->
            IF v = 1 THEN <<"2", "0", "2", "0", "0", "3", "0", "1">>
                     ELSE <<"2", "0", "2", "1", "0", "6", "1", "6">>
      [] tag = "AcquisitionDate" ->
            IF v = 1 THEN <<"2", "0", "2", "0", "0", "1", "1">>
                     ELSE <<"2", "0", "2", "0", "1", "3", "0", "1">>
      [] tag = "ContentDate" ->
            IF v = 1 THEN <<"2", "0", "2", "0", "X", "X", "0", "1">>
                     ELSE <<"0", "0", "0", "1", "0", "1", "0", "1">>
      [] tag = "InstanceCreationDate" ->
            IF v = 1 THEN <<>>
                     ELSE <<"2", "0", "2", "0", "0", "2", "3", "0">>
      [] OTHER ->
            IF v = 1 THEN <<"2", "0", "1", "9", "1", "2", "3", "1">>
                     ELSE <<"2", "0", "0", "0", "0", "2", "2", "9">>

UidSample(tag, v) ==
    CASE tag = "StudyInstanceUID" -> IF v = 1 THEN "1.2.3" ELSE "1.2.4"
      [] tag = "SeriesInstanceUID" -> IF v = 1 THEN "1.2.3.1" ELSE "1.2.3"
      [] OTHER -> IF v = 1 THEN "1.2.3.1.1" ELSE "1.2.4.1.1"

\* A file as it is before any anonymization: PatientID pid ("" for none),
\* the elements of the pattern, values of variant v, the study and series
\* UIDs of variant vs and the instance UID of variant vi.
Record(pid, pattern, v, vs, vi) ==
    [t \in {k \in Keywords :
               IF k = "PatientID" THEN pid # "" ELSE Holds(pattern, k)} |->
        CASE t = "PatientID" -> pid
          [] t \in DAKeywords -> DateSample(t, v)
          [] t = "SOPInstanceUID" -> UidSample(t, vi)
          [] t \in UidTagSet -> UidSample(t, vs)
          [] OTHER -> t \o (IF v = 1 THEN "#1" ELSE "#2")]

OtherVariant(v) == 3 - v
OtherPatient(pid) == IF pid = "P1" THEN "P2" ELSE "P1"

\* The second file of a behaviour, next to Record(pid, pattern, v, v, v).
Related(kind, pid, pattern, v) ==
    CASE kind = "instance" ->    \* another instance of the same series
            Record(pid, pattern, OtherVariant(v), v, OtherVariant(v))
      [] kind = "patient" ->     \* the same file under another patient
            Record(OtherPatient(pid), pattern, v, v, v)
      [] OTHER ->                \* another study of the same patient
            Record(pid, pattern, OtherVariant(v), OtherVariant(v), OtherVariant(v))

Kinds == {"instance", "patient", "study"}

FileA == <<"a", ".dcm">>
FileB == <<"b", ".dcm">>
Missing == <<"missing", ".dcm">>

Procs == 1..MaxProcs

\* The file meta information of a file as core/factories.py builds it: its
\* MediaStorageSOPInstanceUID is the SOPInstanceUID of the dataset.  A file
\* without SOPInstanceUID has no such element.
FileMeta(ds) ==
    IF "SOPInstanceUID" \in DOMAIN ds
    THEN [MediaStorageSOPInstanceUID |-> ds["SOPInstanceUID"]]
    ELSE <<>>

\* dataset.save_as(output_file): the dataset's elements, and the file meta
\* information that the dataset object carries since it was read.
SavedMeta(file_meta, dataset) == file_meta

-----------------------------------------------------------------------------
(* The state machine *)

Init ==
    /\ \E pid \in PatientIds \cup {""}, pattern \in Patterns, v \in Variants,
          kind \in Kinds :
          disk = [f \in {FileA, FileB} |->
                    IF f = FileA THEN Record(pid, pattern, v, v, v)
                    ELSE Related(kind, pid, pattern, v)]
    /\ meta = [f \in DOMAIN disk |-> FileMeta(disk[f])]
    /\ strHash = [p \in Procs |-> <<>>]
    /\ calls = <<>>
    /\ image = <<>>
    \* nothing is cast to uint8 here
    /\ build \in {[cast |-> "wrap", year |-> format] : format \in YearFormats}
    /\ outcome = <<>>
    /\ threads = <<>>
    /\ locals = <<>>
    /\ batch = <<>>

\* hash(s) % 365 in process proc is h: the value drawn before, if any.
HashIs(proc, s, h) == s \in DOMAIN strHash[proc] => strHash[proc][s] = h

\* A new process starts when the ones so far do not serve.
ProcsInUse == {calls[i].proc : i \in 1..Len(calls)}
MayRunIn(proc) == \A p \in 1..proc - 1 : p \in ProcsInUse

\* The callers of anonymize_dicom: main() of anonymize_dicom.py, which may
\* be given any prefix by a library caller, and cmd_anonymize of cli.py,
\* which passes no prefix and prints its success line after the call.
Callers == {"main", "cmd_anonymize"}
DefaultPrefix == "ANON"
PrefixesOf(caller) == IF caller = "cmd_anonymize" THEN {DefaultPrefix} ELSE Prefixes

\* cmd_anonymize prints "Anonymized file written to ..." when the call
\* comes back without an exception.
SuccessReported(caller, raised) == caller = "cmd_anonymize" /\ ~raised

\* What the handler of line 187 lets out of the call: `except Exception`
\* catches whatever the body raised, and the call returns None.
Propagates(exception) == FALSE

\* anonymize_dicom(input_file, output_file, patient_prefix) in process proc,
\* from dcmread to the return, followed by the caller's line after the call.
Anonymize(caller, proc, input_file, output_arg, patient_prefix, h) ==
    /\ Len(calls) < MaxCalls
    /\ MayRunIn(proc)
    /\ input_file \in DOMAIN disk
    /\ UNCHANGED <<imageVars, threadVars, batch>>
    /\ LET dataset == disk[input_file]
           output_file == IF output_arg = NoOutputArg
                          THEN DefaultOutput(input_file) ELSE output_arg
           original_patient_id == OriginalPatientId(dataset)
           call == [caller |-> caller, proc |-> proc, input_file |-> input_file,
                    output_file |-> output_file, prefix |-> patient_prefix,
                    read |-> TRUE, input |-> dataset, offset |-> h]
       IN  /\ HashIs(proc, original_patient_id, h)
           /\ strHash' = [strHash EXCEPT ![proc] = SetAttr(@, original_patient_id, h)]
           /\ \E out \in {Transform(dataset, patient_prefix, h)} :
                 IF out.ok
                 THEN /\ disk' = SetAttr(disk, output_file, out.ds)
                      /\ meta' = SetAttr(meta, output_file,
                                         SavedMeta(meta[input_file], out.ds))
                      /\ calls' = Append(calls, call @@
                            [ret |-> Returned(out.ds), raised |-> FALSE,
                             reported |-> SuccessReported(caller, FALSE)])
                 ELSE /\ UNCHANGED <<disk, meta>>
                      /\ calls' = Append(calls, call @@
                            [ret |-> None, raised |-> Propagates("Exception"),
                             reported |-> SuccessReported(caller, Propagates("Exception"))])

\* dcmread raises (no such file): the handler of line 187 returns None.
AnonymizeUnreadable(caller, proc, input_file, patient_prefix) ==
    /\ Len(calls) < MaxCalls
    /\ MayRunIn(proc)
    /\ input_file \notin DOMAIN disk
    /\ calls' = Append(calls,
                   [caller |-> caller, proc |-> proc, input_file |-> input_file,
                    output_file |-> NoOutputArg, prefix |-> patient_prefix,
                    read |-> FALSE, input |-> <<>>, offset |-> 0, ret |-> None,
                    raised |-> Propagates("FileNotFoundError"),
                    reported |-> SuccessReported(caller, Propagates("FileNotFoundError"))])
    /\ UNCHANGED <<disk, meta, strHash, imageVars, threadVars, batch>>

Next ==
    \/ \E caller \in Callers, proc \in Procs, input_file \in DOMAIN disk,
          h \in OffsetSamples :
          \E patient_prefix \in PrefixesOf(caller) :
             Anonymize(caller, proc, input_file, NoOutputArg, patient_prefix, h)
    \/ \E caller \in Callers, proc \in Procs :
          \E patient_prefix \in PrefixesOf(caller) :
             AnonymizeUnreadable(caller, proc, Missing, patient_prefix)

Spec == Init /\ [][Next]_vars

-----------------------------------------------------------------------------
(* core/images.py                                                          *)
(*                                                                         *)
(* A pixel array is [ndim, frames]: ndim is 2 for a single frame and 3 for *)
(* a stack, and a frame is the sequence of its samples in row-major order. *)
(* A float is the integer number of its hundredths, which is exact for     *)
(* every percentile numpy's linear interpolation gives here and for DS     *)
(* values of two decimals; the rescaled sample is the exact fraction       *)
(* <<numerator, divisor>>.  An optional argument or element value is a     *)
(* sequence: <<>> for None, <<v>> for a value, two entries or more for a   *)
(* pydicom MultiValue.                                                     *)

MaxSamples == 3     \* samples of a frame
MaxFrames == 2      \* frames of a stack

Hundred == 100      \* hundredths in a unit; np.percentile's q is a percentage
Float(n) == n * Hundred
\* int(x): truncation toward zero
Truncate(x) == IF x >= 0 THEN x \div Hundred ELSE -((-x) \div Hundred)

Max(S) == CHOOSE x \in S : \A y \in S : x >= y
Raised(error) == [raised |-> TRUE, error |-> error]

\* pixels.shape[0] of a stack, and the flattened array
Shape0(pixels) == Len(pixels.frames)
RECURSIVE Concat(_)
Concat(frames) ==
    IF frames = <<>> THEN <<>> ELSE Head(frames) \o Concat(Tail(frames))
flatten(pixels) == Concat(pixels.frames)

\* pixels[frame_index] of a stack: numpy counts a negative index from the
\* end and raises IndexError outside [-F, F).
NdIndex(pixels, frame_index) ==
    LET F == Shape0(pixels)
    IN  IF frame_index >= F \/ frame_index < -F
        THEN Raised("IndexError: index out of bounds for axis 0")
        ELSE [raised |-> FALSE,
              index |-> IF frame_index < 0 THEN frame_index + F ELSE frame_index]

\* lines 12-19.  The frame is given with its 0-based position in the stack.
get_frame(pixels, frame_index) ==
    IF pixels.ndim > 2
    THEN IF frame_index >= Shape0(pixels)
         THEN Raised("IndexError: Frame out of range for F frames")
         ELSE LET at == NdIndex(pixels, frame_index)
              IN  IF at.raised THEN at
                  ELSE [raised |-> FALSE, index |-> at.index,
                        frame |-> pixels.frames[at.index + 1]]
    ELSE [raised |-> FALSE, index |-> 0, frame |-> pixels.frames[1]]

\* np.sort
Sorted(a) == SortSeq(a, LAMBDA x, y : x < y)

\* Mutant: the ranks are taken in the array as given.
np_percentile_unsorted(a, q) ==
    LET N == Len(a)
        pos == (N - 1) * q
        lo == pos \div Hundred
        hi == IF lo + 1 < N THEN lo + 1 ELSE lo
    IN  Float(a[lo + 1]) + (pos % Hundred) * (a[hi + 1] - a[lo + 1])

\* np.percentile(a, q), linear interpolation between the two nearest ranks
\* of a non-empty array, in hundredths.
np_percentile(a, q) ==
    LET s == Sorted(a)
        N == Len(s)
        pos == (N - 1) * q
        lo == pos \div Hundred
        hi == IF lo + 1 < N THEN lo + 1 ELSE lo
    IN  Float(s[lo + 1]) + (pos % Hundred) * (s[hi + 1] - s[lo + 1])

\* np.median(a) of a non-empty array: the mean of the middle samples.
np_median(a) ==
    LET s == Sorted(a)
        N == Len(s)
    IN  IF N % 2 = 1 THEN Float(s[(N + 1) \div 2])
        ELSE (Float(s[N \div 2]) + Float(s[N \div 2 + 1])) \div 2

\* np.min / np.max: a zero-size array has no minimum.
np_min(a) ==
    IF Len(a) = 0
    THEN Raised("ValueError: zero-size array to reduction operation")
    ELSE [raised |-> FALSE, value |-> Min(Range(a))]
np_max(a) ==
    IF Len(a) = 0
    THEN Raised("ValueError: zero-size array to reduction operation")
    ELSE [raised |-> FALSE, value |-> Max(Range(a))]

Percentiles == <<1, 5, 25, 75, 95, 99>>

\* lines 26-46: the dict of a non-empty array.  The float statistics are in
\* hundredths and zero_percent is the exact fraction; mean, std and
\* variance, which no property here reads, are left out.
Statistics(flat_pixels) ==
    LET p == [q \in Range(Percentiles) |-> np_percentile(flat_pixels, q)]
        lowest == np_min(flat_pixels).value
        highest == np_max(flat_pixels).value
        total_pixels == Len(flat_pixels)
        zero_pixels == Cardinality({i \in 1..total_pixels : flat_pixels[i] = 0})
    IN  [op |-> "calculate_statistics", raised |-> FALSE,
         min |-> lowest, max |-> highest,
         median |-> np_median(flat_pixels),
         p1 |-> p[1], p5 |-> p[5], p25 |-> p[25],
         p75 |-> p[75], p95 |-> p[95], p99 |-> p[99],
         total_pixels |-> total_pixels,
         unique_values |-> Cardinality(Range(flat_pixels)),
         zero_pixels |-> zero_pixels,
         range |-> highest - lowest,
         iqr |-> p[75] - p[25],
         zero_percent |-> <<zero_pixels * Hundred, Max({total_pixels, 1})>>]

\* Mutant: a zero-size array gets a record of zeros.
calculate_statistics_of_nothing(pixels) ==
    IF Len(flatten(pixels)) = 0
    THEN [op |-> "calculate_statistics", raised |-> FALSE,
          total_pixels |-> 0, zero_pixels |-> 0, zero_percent |-> <<0, 1>>]
    ELSE Statistics(flatten(pixels))

\* lines 22-47: np.min, the first entry of the dict, raises on a zero-size
\* array, and the exception leaves the function.
calculate_statistics(pixels) ==
    LET flat_pixels == flatten(pixels)
        lowest == np_min(flat_pixels)
    IN  IF lowest.raised THEN lowest @@ [op |-> "calculate_statistics"]
        ELSE Statistics(flat_pixels)

\* dataset.get(keyword) of an optional element
Hint(ds, keyword) == ds.tags[keyword]

\* Mutant: the last value of a multi-valued tag is taken, and the
\* percentile branch is the one of derive_window.
derive_window_last_value(ds, frame) ==
    LET wc == Hint(ds, "WindowCenter")
        ww == Hint(ds, "WindowWidth")
    IN  IF wc # <<>> /\ ww # <<>>
        THEN [raised |-> FALSE, mode |-> "tags",
              center |-> Truncate(wc[Len(wc)]),
              width |-> Truncate(Max({Float(1), ww[Len(ww)]}))]
        ELSE IF Len(frame) = 0
        THEN Raised("ValueError: cannot convert float NaN to integer")
        ELSE LET spread == np_percentile(frame, 95) - np_percentile(frame, 5)
                 extent == np_max(frame).value - np_min(frame).value
             IN  [raised |-> FALSE, mode |-> "auto",
                  center |-> Truncate(np_median(frame)),
                  width |-> Truncate(IF spread > 0 THEN spread
                                     ELSE Float(IF extent # 0 THEN extent ELSE 1))]

\* lines 50-66.  center and width are the integers returned.
derive_window(ds, frame) ==
    LET wc == Hint(ds, "WindowCenter")
        ww == Hint(ds, "WindowWidth")
    IN  IF wc # <<>> /\ ww # <<>>
        THEN [raised |-> FALSE, mode |-> "tags",
              center |-> Truncate(wc[1]),
              width |-> Truncate(Max({Float(1), ww[1]}))]
        ELSE IF Len(frame) = 0
        THEN Raised("ValueError: cannot convert float NaN to integer")
        ELSE LET center == np_median(frame)
                 spread == np_percentile(frame, 95) - np_percentile(frame, 5)
                 extent == np_max(frame).value - np_min(frame).value
                 width == IF spread > 0 THEN spread
                          ELSE Float(IF extent # 0 THEN extent ELSE 1)
             IN  [raised |-> FALSE, mode |-> "auto",
                  center |-> Truncate(center), width |-> Truncate(width)]

UInt8Max == 255
UInt8Modulus == 256

\* np.clip(x, a_min, a_max) = minimum(maximum(x, a_min), a_max)
np_clip(x, a_min, a_max) == Min({Max({x, a_min}), a_max})

\* <<n, d>>.astype(np.uint8), d > 0: a value of [0, 256) is truncated; the
\* C cast of any other value is undefined, and the build either keeps the
\* low byte of the truncated integer or saturates.
astype_uint8(x) ==
    LET n == x[1]
        d == x[2]
        t == IF n >= 0 THEN n \div d ELSE -((-n) \div d)
    IN  IF 0 <= t /\ t <= UInt8Max THEN t
        ELSE IF build.cast = "wrap" THEN t % UInt8Modulus
        ELSE IF t < 0 THEN 0 ELSE UInt8Max

\* Mutant: the inversion subtracts from 256, modulo 256.
Invert_modular(ds, scaled) ==
    IF Hint(ds, "PhotometricInterpretation") = <<"MONOCHROME1">>
    THEN [i \in DOMAIN scaled |-> (UInt8Modulus - scaled[i]) % UInt8Modulus]
    ELSE scaled

\* Mutant: the inversion is applied to MONOCHROME2.
Invert_monochrome2(ds, scaled) ==
    IF Hint(ds, "PhotometricInterpretation") = <<"MONOCHROME2">>
    THEN [i \in DOMAIN scaled |-> UInt8Max - scaled[i]]
    ELSE scaled

\* lines 82-83
Invert(ds, scaled) ==
    IF Hint(ds, "PhotometricInterpretation") = <<"MONOCHROME1">>
    THEN [i \in DOMAIN scaled |-> UInt8Max - scaled[i]]
    ELSE scaled

\* lines 73-75: the window given, or derived when either part is None
Window(ds, frame, window_center, window_width) ==
    IF window_center = <<>> \/ window_width = <<>>
    THEN derive_window(ds, frame)
    ELSE [raised |-> FALSE, mode |-> "given",
          center |-> window_center[1], width |-> window_width[1]]

\* The samples are 16-bit signed integers, as pixel_array gives them for
\* BitsAllocated 16 and PixelRepresentation 1.
PixelBits == 16
FitsPixel(n) == -(2 ^ (PixelBits - 1)) <= n /\ n < 2 ^ (PixelBits - 1)
WrapPixel(n) == ((n + 2 ^ (PixelBits - 1)) % (2 ^ PixelBits)) - 2 ^ (PixelBits - 1)

\* windowed - img_min, for a sample of np.clip(frame, img_min, img_max): an
\* integer array and a Python integer that its type can hold give an array
\* of that type, whose arithmetic wraps; bounds that the type cannot hold
\* have promoted the clipped array to a wider type.
Offset(sample, img_min, img_max) ==
    IF FitsPixel(img_min) /\ FitsPixel(img_max)
    THEN WrapPixel(np_clip(sample, img_min, img_max) - img_min)
    ELSE np_clip(sample, img_min, img_max) - img_min

\* lines 77-80
Rescale(frame, center, width) ==
    LET img_min == center - width \div 2
        img_max == center + width \div 2
        divisor == Max({img_max - img_min, 1})
        rescaled == [i \in DOMAIN frame |->
                       <<Offset(frame[i], img_min, img_max) * UInt8Max, divisor>>]
    IN  [img_min |-> img_min, img_max |-> img_max, divisor |-> divisor,
         rescaled |-> rescaled,
         scaled |-> [i \in DOMAIN frame |-> astype_uint8(rescaled[i])]]

\* lines 69-85
window_frame(ds, frame_index, window_center, window_width) ==
    LET call == [op |-> "window_frame", frame_index |-> frame_index,
                 window_center |-> window_center, window_width |-> window_width]
        got == get_frame(ds.pixel_array, frame_index)
    IN  IF got.raised THEN got @@ call
        ELSE LET window == Window(ds, got.frame, window_center, window_width)
             IN  IF window.raised THEN window @@ call
                 ELSE LET values == Rescale(got.frame, window.center, window.width)
                      IN  call @@ window @@ values
                          @@ [frame |-> got.frame, out |-> Invert(ds, values.scaled)]

-----------------------------------------------------------------------------
(* Datasets and arguments of the pixel helpers *)

SampleValues == {-2, 0, 1}
Frames(n) == [1..n -> SampleValues]
PixelArrays ==
    {[ndim |-> 2, frames |-> <<frame>>] :
        frame \in UNION {Frames(n) : n \in 0..MaxSamples}}
    \cup {[ndim |-> 3, frames |-> stack] :
            stack \in UNION {[1..F -> Frames(1)] : F \in 1..MaxFrames}}

\* <<WindowCenter, WindowWidth>> as the dataset holds them, in hundredths
HintSamples ==
    {<< <<>>, <<>> >>, << <<100>>, <<>> >>, << <<>>, <<400>> >>,
     << <<100>>, <<50>> >>, << <<-150>>, <<-200>> >>,
     << <<0, 400>>, <<300, 100>> >>, << <<50>>, <<400>> >>}
Photometrics == {<<>>, <<"MONOCHROME1">>, <<"MONOCHROME2">>}

Datasets ==
    {[pixel_array |-> pixels,
      tags |-> [WindowCenter |-> hint[1], WindowWidth |-> hint[2],
                PhotometricInterpretation |-> photometric]] :
        pixels \in PixelArrays, hint \in HintSamples, photometric \in Photometrics}

FrameIndexes == -(MaxFrames + 1)..MaxFrames
WindowCenters == {<<>>, <<0>>, <<1>>}
WindowWidths == {<<>>, <<-3>>, <<0>>, <<4>>}
Casts == {"wrap", "saturate"}

-----------------------------------------------------------------------------
(* convert_to_image.py, pixel_stats.py, web_interface.py: the standalone   *)
(* paths, which select the frame and window it with code of their own      *)

\* convert_to_image.py lines 77-83 and pixel_stats.py lines 43-50: the
\* frame number used, and pixel_array[frame_number] as numpy indexes it.
SelectFrame(pixels, frame_number) ==
    IF pixels.ndim > 2
    THEN LET total_frames == Shape0(pixels)
             used == IF frame_number >= total_frames THEN 0 ELSE frame_number
             at == NdIndex(pixels, used)
         IN  IF at.raised THEN at
             ELSE [raised |-> FALSE, frame_number |-> used, index |-> at.index,
                   frame |-> pixels.frames[at.index + 1]]
    ELSE [raised |-> FALSE, frame_number |-> frame_number, index |-> 0,
          frame |-> pixels.frames[1]]

\* pixel_stats.py lines 25-110.  The except of line 108 prints the error.
display_statistics(ds, frame_number) ==
    LET call == [op |-> "display_statistics", requested |-> frame_number]
        selected == SelectFrame(ds.pixel_array, frame_number)
    IN  IF selected.raised THEN selected @@ call
        ELSE LET stats == calculate_statistics([ndim |-> 2,
                                                frames |-> <<selected.frame>>])
             IN  IF stats.raised THEN [raised |-> TRUE, error |-> stats.error] @@ call
                 ELSE call @@ [raised |-> FALSE, index |-> selected.index,
                               frame |-> selected.frame, stats |-> stats]

\* convert_to_image.py lines 33-40
auto_window(pixel_array) ==
    [center |-> Truncate(np_median(pixel_array)),
     width |-> Truncate(np_percentile(pixel_array, 95)
                        - np_percentile(pixel_array, 5))]

\* <<n, d>>.astype(np.uint8) for any d: 0 / 0 is nan and n / 0 an
\* infinity, whose casts are undefined like those of the values out of
\* range: both builds give 0 for nan and for -inf, and the low byte 0 or
\* the saturated 255 for +inf.
astype_uint8_of_quotient(x) ==
    IF x[2] > 0 THEN astype_uint8(x)
    ELSE IF x[2] < 0 THEN astype_uint8(<<-x[1], -x[2]>>)
    ELSE IF x[1] > 0 /\ build.cast # "wrap" THEN UInt8Max
    ELSE 0

\* convert_to_image.py lines 13-31: the divisor is img_max - img_min as it is
apply_windowing(pixel_array, window_center, window_width) ==
    LET img_min == window_center - window_width \div 2
        img_max == window_center + window_width \div 2
        rescaled == [i \in DOMAIN pixel_array |->
                       <<Offset(pixel_array[i], img_min, img_max) * UInt8Max,
                         img_max - img_min>>]
    IN  [img_min |-> img_min, img_max |-> img_max,
         divisor |-> img_max - img_min, rescaled |-> rescaled,
         scaled |-> [i \in DOMAIN pixel_array |->
                        astype_uint8_of_quotient(rescaled[i])]]

\* convert_to_image.py lines 92-108 and web_interface.py lines 168-181: the
\* tag pair as integers, with no lower bound on the width, or auto_window
TagsOrAuto(ds, pixel_array) ==
    LET wc == Hint(ds, "WindowCenter")
        ww == Hint(ds, "WindowWidth")
    IN  IF wc # <<>> /\ ww # <<>>
        THEN [raised |-> FALSE, mode |-> "tags",
              center |-> Truncate(wc[1]), width |-> Truncate(ww[1])]
        ELSE IF Len(pixel_array) = 0
        THEN Raised("ValueError: cannot convert float NaN to integer")
        ELSE [raised |-> FALSE, mode |-> "auto"] @@ auto_window(pixel_array)

\* convert_to_image.py lines 42-147, for a file that holds pixel data; the
\* except of line 143 returns None.
convert_dicom_to_image(ds, frame_number, window_center, window_width) ==
    LET call == [op |-> "convert_dicom_to_image", requested |-> frame_number,
                 window_center |-> window_center, window_width |-> window_width]
        selected == SelectFrame(ds.pixel_array, frame_number)
    IN  IF selected.raised THEN selected @@ call
        ELSE IF Len(selected.frame) = 0
        THEN Raised("ValueError: zero-size array to reduction operation") @@ call
        ELSE LET window ==
                     IF window_center = <<>> \/ window_width = <<>>
                     THEN TagsOrAuto(ds, selected.frame)
                     ELSE [raised |-> FALSE, mode |-> "given",
                           center |-> window_center[1], width |-> window_width[1]]
                 values == apply_windowing(selected.frame, window.center, window.width)
             IN  call @@ window @@ values
                 @@ [index |-> selected.index, frame |-> selected.frame,
                     out |-> Invert(ds, values.scaled)]

\* web_interface.py lines 145-205, for a file that holds pixel data: frame 0
\* and the windowing of the converter, inlined.
get_image(ds) ==
    LET call == [op |-> "get_image"]
        pixel_array == ds.pixel_array.frames[1]
        window == TagsOrAuto(ds, pixel_array)
    IN  IF window.raised THEN window @@ call
        ELSE LET values == apply_windowing(pixel_array, window.center, window.width)
             IN  call @@ window @@ values
                 @@ [index |-> 0, frame |-> pixel_array,
                     out |-> Invert(ds, values.scaled)]

\* <<window_center, window_width>> as passed to the converter
ConvertWindows ==
    {<< <<>>, <<>> >>, << <<0>>, <<4>> >>, << <<1>>, <<0>> >>, << <<1>>, <<>> >>}

-----------------------------------------------------------------------------
(* The pixel helpers as a state machine: one call on one dataset *)

ImagesInit ==
    /\ image \in Datasets
    \* no date is formatted here
    /\ build \in {[cast |-> cast, year |-> "padded"] : cast \in Casts}
    /\ outcome = <<>>
    /\ disk = <<>>
    /\ meta = <<>>
    /\ strHash = <<>>
    /\ calls = <<>>
    /\ threads = <<>>
    /\ locals = <<>>
    /\ batch = <<>>

GetFrame(frame_index) ==
    /\ outcome = <<>>
    /\ outcome' = get_frame(image.pixel_array, frame_index)
                    @@ [op |-> "get_frame", frame_index |-> frame_index]
    /\ UNCHANGED <<image, build, anonVars, threadVars, batch>>

CalculateStatistics ==
    /\ outcome = <<>>
    /\ outcome' = calculate_statistics(image.pixel_array)
    /\ UNCHANGED <<image, build, anonVars, threadVars, batch>>

WindowFrame(frame_index, window_center, window_width) ==
    /\ outcome = <<>>
    /\ outcome' = window_frame(image, frame_index, window_center, window_width)
    /\ UNCHANGED <<image, build, anonVars, threadVars, batch>>

DisplayStatistics(frame_number) ==
    /\ outcome = <<>>
    /\ outcome' = display_statistics(image, frame_number)
    /\ UNCHANGED <<image, build, anonVars, threadVars, batch>>

ConvertDicomToImage(frame_number, window_center, window_width) ==
    /\ outcome = <<>>
    /\ outcome' = convert_dicom_to_image(image, frame_number,
                                         window_center, window_width)
    /\ UNCHANGED <<image, build, anonVars, threadVars, batch>>

GetImage ==
    /\ outcome = <<>>
    /\ outcome' = get_image(image)
    /\ UNCHANGED <<image, build, anonVars, threadVars, batch>>

ImagesNext ==
    \/ \E frame_index \in FrameIndexes : GetFrame(frame_index)
    \/ CalculateStatistics
    \/ \E frame_index \in FrameIndexes, window_center \in WindowCenters,
          window_width \in WindowWidths :
          WindowFrame(frame_index, window_center, window_width)
    \/ \E frame_number \in FrameIndexes : DisplayStatistics(frame_number)
    \/ \E frame_number \in FrameIndexes, window \in ConvertWindows :
          ConvertDicomToImage(frame_number, window[1], window[2])
    \/ GetImage

ImagesSpec == ImagesInit /\ [][ImagesNext]_vars

\* window_frame with an explicit window on frames that use the range of
\* their 16-bit samples.
WideSamples == {-20000, 0, 20000}
WideImages ==
    {[pixel_array |-> [ndim |-> 2, frames |-> <<frame>>],
      tags |-> [WindowCenter |-> <<>>, WindowWidth |-> <<>>,
                PhotometricInterpretation |-> photometric]] :
        frame \in [{1, 2} -> WideSamples] \cup [{1, 2, 3} -> WideSamples],
        photometric \in Photometrics}
WideCenters == {0, 1}
WideWidths == {1, 2, 3, 40000}

WideInit ==
    /\ image \in WideImages
    /\ build \in {[cast |-> cast, year |-> "padded"] : cast \in Casts}
    /\ outcome = <<>>
    /\ disk = <<>>
    /\ meta = <<>>
    /\ strHash = <<>>
    /\ calls = <<>>
    /\ threads = <<>>
    /\ locals = <<>>
    /\ batch = <<>>

WideNext ==
    \E window_center \in WideCenters, window_width \in WideWidths :
        WindowFrame(0, <<window_center>>, <<window_width>>)

WideSpec == WideInit /\ [][WideNext]_vars

-----------------------------------------------------------------------------
(* Two invocations in the threads of one process                           *)
(*                                                                         *)
(* A thread runs one invocation, statement group by statement group, and   *)
(* the scheduler may switch threads between any two groups.  What an       *)
(* invocation binds with `name = ...` lives in its own frame; the process  *)
(* shares the files and the hash of strings.                               *)

MaxThreads == 2
Threads == 1..MaxThreads

\* Mutant: the local variables are globals of the module.
Frame_global(t) == 1

\* The frame that holds the local variables of the invocation of thread t.
Frame(t) == t

ThisProcess == Min(Procs)
\* The records are distinct: a thread beyond the files of the behaviour
\* runs a pixel helper.
InputFiles == <<FileA, FileB>>
InputOf(t) == InputFiles[t]

ThreadImages ==
    {[pixel_array |-> [ndim |-> 2, frames |-> << <<-2, 0, 1>> >>],
      tags |-> [WindowCenter |-> <<>>, WindowWidth |-> <<>>,
                PhotometricInterpretation |-> <<"MONOCHROME1">>]],
     [pixel_array |-> [ndim |-> 3, frames |-> << <<1>>, <<0>> >>],
      tags |-> [WindowCenter |-> <<50>>, WindowWidth |-> <<400>>,
                PhotometricInterpretation |-> <<>>]]}
ThreadWindows ==
    {[frame_index |-> 0, window_center |-> <<>>, window_width |-> <<>>],
     [frame_index |-> 1, window_center |-> <<1>>, window_width |-> <<4>>],
     [frame_index |-> MaxFrames, window_center |-> <<>>, window_width |-> <<>>]}

Invocations(t) ==
    {[program |-> "anonymize_dicom", pc |-> "dcmread",
      args |-> [input_file |-> InputOf(i), patient_prefix |-> prefix]] :
        prefix \in Prefixes, i \in {t} \cap DOMAIN InputFiles}
    \cup {[program |-> "window_frame", pc |-> "get_frame",
           args |-> [dataset |-> ds] @@ window] :
            ds \in ThreadImages, window \in ThreadWindows}
    \cup {[program |-> "calculate_statistics", pc |-> "stats",
           args |-> [dataset |-> ds]] : ds \in ThreadImages}

ThreadsInit ==
    /\ \E pid \in PatientIds \cup {""}, v \in Variants, kind \in Kinds :
          disk = [f \in {FileA, FileB} |->
                    IF f = FileA THEN Record(pid, PatternModulus, v, v, v)
                    ELSE Related(kind, pid, PatternModulus, v)]
    /\ meta = [f \in DOMAIN disk |-> FileMeta(disk[f])]
    /\ strHash = [p \in {ThisProcess} |-> <<>>]
    /\ calls = <<>>
    /\ image = <<>>
    \* nothing is cast to uint8 here
    /\ build \in {[cast |-> "wrap", year |-> format] : format \in YearFormats}
    /\ outcome = <<>>
    /\ threads \in [Threads -> UNION {Invocations(t) : t \in Threads}]
    /\ \A t \in Threads : threads[t] \in Invocations(t)
    /\ locals = [f \in Threads |-> <<>>]
    /\ batch = <<>>

At(t, program, pc) == threads[t].program = program /\ threads[t].pc = pc
Mine(t) == locals[Frame(t)]
\* name = value, for each name of the record bound
Bind(t, bound) == locals' = [locals EXCEPT ![Frame(t)] = bound @@ @]
Goto(t, pc) == threads' = [threads EXCEPT ![t].pc = pc]
Return(t, value) ==
    threads' = [threads EXCEPT ![t] = [pc |-> "done", ret |-> value] @@ @]

\* lines 37-48
ReadDataset(t) ==
    /\ At(t, "anonymize_dicom", "dcmread")
    /\ LET input_file == threads[t].args.input_file
           dataset == disk[input_file]
           original_patient_id == OriginalPatientId(dataset)
       IN  Bind(t, [dataset |-> dataset,
                    file_meta |-> meta[input_file],
                    output_file |-> DefaultOutput(input_file),
                    original_patient_id |-> original_patient_id,
                    anonymous_id |-> AnonymousId(threads[t].args.patient_prefix,
                                                 original_patient_id)])
    /\ Goto(t, "patient_tags")
    /\ UNCHANGED <<anonVars, imageVars, batch>>

\* lines 51-75
RewritePatientTags(t) ==
    /\ At(t, "anonymize_dicom", "patient_tags")
    /\ Bind(t, [dataset |-> AnonymizePatientTags(Mine(t).dataset, Mine(t).anonymous_id)])
    /\ Goto(t, "age")
    /\ UNCHANGED <<anonVars, imageVars, batch>>

\* lines 78-85
ComputeAge(t) ==
    /\ At(t, "anonymize_dicom", "age")
    /\ Bind(t, [dataset |-> PreserveAge(Mine(t).dataset).ds])
    /\ Goto(t, "study_tags")
    /\ UNCHANGED <<anonVars, imageVars, batch>>

\* lines 88-109
RewriteStudyTags(t) ==
    /\ At(t, "anonymize_dicom", "study_tags")
    /\ Bind(t, [dataset |-> AnonymizeStudyTags(Mine(t).dataset)])
    /\ Goto(t, "dates")
    /\ UNCHANGED <<anonVars, imageVars, batch>>

\* lines 113-128; an exception that the shift lets out reaches line 187.
ShiftDateTags(t, h) ==
    /\ At(t, "anonymize_dicom", "dates")
    /\ HashIs(ThisProcess, Mine(t).original_patient_id, h)
    /\ strHash' = [strHash EXCEPT
                     ![ThisProcess] = SetAttr(@, Mine(t).original_patient_id, h)]
    /\ \E shifted \in {ShiftDates(Mine(t).dataset, h)} :
          IF shifted.raised
          THEN Return(t, None) /\ UNCHANGED locals
          ELSE Bind(t, [dataset |-> shifted.ds, date_offset_days |-> h])
               /\ Goto(t, "uids")
    /\ UNCHANGED <<disk, meta, calls, imageVars, batch>>

\* lines 132-148
RegenerateUidTags(t) ==
    /\ At(t, "anonymize_dicom", "uids")
    /\ Bind(t, [dataset |-> RegenerateUids(Mine(t).dataset, Mine(t).anonymous_id)])
    /\ Goto(t, "remove")
    /\ UNCHANGED <<anonVars, imageVars, batch>>

\* lines 151-172
RemoveListedAndPrivate(t) ==
    /\ At(t, "anonymize_dicom", "remove")
    /\ Bind(t, [dataset |-> RemovePrivateTags(RemoveTags(Mine(t).dataset))])
    /\ Goto(t, "save_as")
    /\ UNCHANGED <<anonVars, imageVars, batch>>

\* lines 176-185
SaveAndReturn(t) ==
    /\ At(t, "anonymize_dicom", "save_as")
    /\ disk' = SetAttr(disk, Mine(t).output_file, Mine(t).dataset)
    /\ meta' = SetAttr(meta, Mine(t).output_file,
                       SavedMeta(Mine(t).file_meta, Mine(t).dataset))
    /\ Return(t, Returned(Mine(t).dataset))
    /\ UNCHANGED <<strHash, calls, imageVars, locals, batch>>

\* core/images.py line 72
TakeFrame(t) ==
    /\ At(t, "window_frame", "get_frame")
    /\ LET got == get_frame(threads[t].args.dataset.pixel_array,
                            threads[t].args.frame_index)
       IN  IF got.raised
           THEN Return(t, got) /\ UNCHANGED locals
           ELSE Bind(t, [frame |-> got.frame]) /\ Goto(t, "window")
    /\ UNCHANGED <<anonVars, imageVars, batch>>

\* core/images.py lines 73-75
TakeWindow(t) ==
    /\ At(t, "window_frame", "window")
    /\ LET window == Window(threads[t].args.dataset, Mine(t).frame,
                            threads[t].args.window_center,
                            threads[t].args.window_width)
       IN  IF window.raised
           THEN Return(t, window) /\ UNCHANGED locals
           ELSE Bind(t, [center |-> window.center, width |-> window.width])
                /\ Goto(t, "scale")
    /\ UNCHANGED <<anonVars, imageVars, batch>>

\* core/images.py lines 77-80
ScaleFrame(t) ==
    /\ At(t, "window_frame", "scale")
    /\ Bind(t, [scaled |-> Rescale(Mine(t).frame, Mine(t).center, Mine(t).width).scaled])
    /\ Goto(t, "invert")
    /\ UNCHANGED <<anonVars, imageVars, batch>>

\* core/images.py lines 82-85
InvertAndReturn(t) ==
    /\ At(t, "window_frame", "invert")
    /\ Return(t, [raised |-> FALSE,
                  out |-> Invert(threads[t].args.dataset, Mine(t).scaled)])
    /\ UNCHANGED <<anonVars, imageVars, locals, batch>>

\* core/images.py lines 22-47
ComputeStatistics(t) ==
    /\ At(t, "calculate_statistics", "stats")
    /\ Return(t, calculate_statistics(threads[t].args.dataset.pixel_array))
    /\ UNCHANGED <<anonVars, imageVars, locals, batch>>

ThreadsNext ==
    \E t \in Threads :
        \/ ReadDataset(t)
        \/ RewritePatientTags(t)
        \/ ComputeAge(t)
        \/ RewriteStudyTags(t)
        \/ \E h \in OffsetSamples : ShiftDateTags(t, h)
        \/ RegenerateUidTags(t)
        \/ RemoveListedAndPrivate(t)
        \/ SaveAndReturn(t)
        \/ TakeFrame(t)
        \/ TakeWindow(t)
        \/ ScaleFrame(t)
        \/ InvertAndReturn(t)
        \/ ComputeStatistics(t)

ThreadsSpec == ThreadsInit /\ [][ThreadsNext]_vars

-----------------------------------------------------------------------------
(* validate_dicom.py: DicomValidator._validate_uids, and the characters of *)
(* the UIDs that anonymize_dicom writes                                    *)

UidMaxLength == 64

\* The sixteen hexadecimal digits of hexdigest()[:16] for the seeds of a
\* first anonymization, as hashlib computes them for the seed
\* f"{prefix}_{digest of the PatientID}_{original UID}"; the key is the
\* seed as the symbolic digest writes it.
HexDigest ==
    "ANON_SHA16(P1)_1.2.3" :> <<10, 15, 14, 0, 10, 3, 15, 4, 14, 3, 14, 1, 1, 3, 10, 3>> @@
    "ANON_SHA16(P1)_1.2.4" :> <<3, 13, 1, 7, 14, 15, 5, 0, 10, 6, 2, 12, 10, 11, 9, 12>> @@
    "ANON_SHA16(P1)_1.2.3.1" :> <<15, 0, 7, 10, 2, 14, 0, 6, 6, 13, 9, 15, 12, 1, 1, 14>> @@
    "ANON_SHA16(P1)_1.2.3.1.1" :> <<10, 8, 10, 5, 14, 2, 1, 0, 12, 11, 3, 11, 13, 12, 0, 10>> @@
    "ANON_SHA16(P1)_1.2.4.1.1" :> <<6, 1, 13, 8, 13, 4, 15, 5, 8, 11, 12, 11, 15, 6, 8, 13>> @@
    "SITE_SHA16(P1)_1.2.3" :> <<8, 11, 14, 15, 7, 15, 2, 0, 2, 6, 3, 15, 10, 1, 11, 14>> @@
    "SITE_SHA16(P1)_1.2.4" :> <<14, 6, 4, 8, 1, 12, 15, 12, 3, 5, 3, 15, 14, 5, 7, 11>> @@
    "SITE_SHA16(P1)_1.2.3.1" :> <<0, 15, 8, 2, 0, 1, 11, 10, 15, 4, 13, 11, 14, 10, 8, 2>> @@
    "SITE_SHA16(P1)_1.2.3.1.1" :> <<12, 5, 2, 11, 12, 1, 12, 1, 11, 8, 1, 11, 11, 10, 13, 15>> @@
    "SITE_SHA16(P1)_1.2.4.1.1" :> <<11, 0, 11, 3, 2, 15, 8, 15, 1, 10, 12, 5, 13, 15, 13, 15>> @@
    "ANON_SHA16(P2)_1.2.3" :> <<2, 13, 5, 11, 2, 13, 8, 0, 8, 0, 4, 2, 0, 1, 14, 12>> @@
    "ANON_SHA16(P2)_1.2.4" :> <<5, 12, 9, 9, 14, 15, 5, 11, 13, 14, 8, 4, 1, 11, 4, 4>> @@
    "ANON_SHA16(P2)_1.2.3.1" :> <<13, 15, 0, 12, 14, 15, 10, 15, 12, 15, 10, 10, 13, 8, 0, 0>> @@
    "ANON_SHA16(P2)_1.2.3.1.1" :> <<12, 1, 5, 14, 0, 3, 6, 1, 14, 6, 0, 6, 14, 8, 12, 8>> @@
    "ANON_SHA16(P2)_1.2.4.1.1" :> <<7, 14, 12, 9, 13, 4, 0, 3, 4, 7, 5, 13, 14, 12, 9, 8>> @@
    "SITE_SHA16(P2)_1.2.3" :> <<12, 4, 0, 0, 0, 13, 4, 0, 6, 5, 9, 2, 4, 5, 12, 7>> @@
    "SITE_SHA16(P2)_1.2.4" :> <<7, 13, 13, 7, 8, 9, 7, 5, 14, 3, 3, 10, 13, 8, 10, 5>> @@
    "SITE_SHA16(P2)_1.2.3.1" :> <<7, 8, 3, 12, 3, 3, 5, 12, 15, 14, 9, 2, 14, 9, 7, 6>> @@
    "SITE_SHA16(P2)_1.2.3.1.1" :> <<3, 2, 7, 11, 8, 13, 6, 0, 3, 15, 5, 13, 14, 15, 3, 14>> @@
    "SITE_SHA16(P2)_1.2.4.1.1" :> <<13, 15, 4, 12, 3, 14, 8, 2, 9, 14, 0, 11, 11, 7, 13, 1>> @@
    "ANON_SHA16(UNKNOWN)_1.2.3" :> <<2, 11, 0, 9, 13, 13, 9, 10, 14, 5, 14, 10, 10, 4, 8, 13>> @@
    "ANON_SHA16(UNKNOWN)_1.2.4" :> <<0, 3, 2, 3, 9, 2, 14, 6, 1, 0, 0, 5, 6, 2, 8, 14>> @@
    "ANON_SHA16(UNKNOWN)_1.2.3.1" :> <<10, 2, 12, 13, 14, 9, 13, 13, 8, 9, 11, 2, 9, 13, 10, 6>> @@
    "ANON_SHA16(UNKNOWN)_1.2.3.1.1" :> <<12, 9, 9, 13, 15, 0, 12, 7, 8, 15, 13, 3, 15, 15, 2, 2>> @@
    "ANON_SHA16(UNKNOWN)_1.2.4.1.1" :> <<8, 15, 4, 9, 12, 13, 8, 11, 3, 9, 13, 5, 4, 11, 1, 5>> @@
    "SITE_SHA16(UNKNOWN)_1.2.3" :> <<12, 12, 1, 7, 15, 5, 3, 1, 12, 11, 10, 3, 11, 11, 6, 15>> @@
    "SITE_SHA16(UNKNOWN)_1.2.4" :> <<1, 14, 7, 1, 15, 1, 4, 14, 2, 14, 4, 6, 8, 10, 7, 15>> @@
    "SITE_SHA16(UNKNOWN)_1.2.3.1" :> <<7, 4, 5, 10, 13, 9, 8, 6, 8, 6, 14, 1, 15, 8, 13, 14>> @@
    "SITE_SHA16(UNKNOWN)_1.2.3.1.1" :> <<3, 8, 12, 4, 5, 0, 2, 10, 4, 11, 11, 15, 11, 10, 10, 7>> @@
    "SITE_SHA16(UNKNOWN)_1.2.4.1.1" :> <<8, 11, 15, 8, 1, 7, 11, 0, 13, 0, 12, 6, 10, 6, 15, 13>>

HexLetters == <<"A", "B", "C", "D", "E", "F">>
\* one character of hexdigest().upper()
HexChar(nibble) ==
    IF nibble < Len(Digits) THEN Digits[nibble + 1]
    ELSE HexLetters[nibble + 1 - Len(Digits)]

UIDRootChars ==
    <<"1", ".", "2", ".", "8", "2", "6", ".", "0", ".", "1", ".", "3", "6", "8", "0", "0", "4", "3", ".", "8", ".", "4", "9", "8", ".">>

\* str(new_uid) of line 146, character by character
NewUidChars(anonymous_id, original_uid) ==
    UIDRootChars \o [k \in DOMAIN HexDigest[anonymous_id \o "_" \o original_uid] |->
                       HexChar(HexDigest[anonymous_id \o "_" \o original_uid][k])]

uid_tags == <<"SOPInstanceUID", "StudyInstanceUID", "SeriesInstanceUID">>

\* lines 223-235: the errors appended for one UID
UidErrors(uid) ==
    {error \in {"format", "length", "dot"} :
        CASE error = "format" ->
                ~(\A k \in DOMAIN uid : IsDigit(uid[k]) \/ uid[k] = ".")
          [] error = "length" -> Len(uid) > UidMaxLength
          [] OTHER -> uid # <<>> /\ (uid[1] = "." \/ uid[Len(uid)] = ".")}

-----------------------------------------------------------------------------
(* batch_process.py: one loop over a list of files                         *)
(*                                                                         *)
(* The list is what find_dicom_files returns, sorted and without            *)
(* duplicates, or any list a caller hands over; a path of the list may not  *)
(* be readable when its turn comes.                                         *)

\* What a readable file of the list holds besides its elements.
FileKinds == {"uncompressed", "compressed", "undecodable", "no_pixels"}

BatchNames == <<FileA, FileB, Missing>>

\* sorted(set(dicom_files)) of line 47, for the paths numbered in keep
Sublist(names, keep) ==
    LET upto[i \in 0..Len(names)] ==
            IF i = 0 THEN <<>>
            ELSE IF i \in keep THEN Append(upto[i - 1], names[i])
            ELSE upto[i - 1]
    IN  upto[Len(names)]

BatchLists == {Sublist(BatchNames, keep) : keep \in SUBSET DOMAIN BatchNames}

OutputDirs == {<<>>, <<"out">>}

\* os.path.join(output_dir, f"{name}{suffix}{ext}"), lines 66-75, 112-116
\* and 150-154; ext is the given one or that of the file.
Joined(output_dir, file_path, suffix, ext) ==
    <<(IF output_dir = <<>> THEN "" ELSE output_dir[1] \o "/")
        \o file_path[1] \o suffix, ext>>

\* bool(result) of lines 121 and 159: a Dataset is as true as it has
\* elements, a path is true, None is false.
Truthy(result) == result.ok /\ result.ds # <<>>

\* Lines 83, 85, 89, 121-124, 159-162: what an iteration adds to the counts.
Counted_success_only(run, file_path, what) ==
    [run EXCEPT !.i = @ + 1,
                !.outcomes = Append(@, [file |-> file_path, what |-> what]),
                !.success_count = IF what = "success" THEN @ + 1 ELSE @]

Counted(run, file_path, what) ==
    [run EXCEPT !.i = @ + 1,
                !.outcomes = Append(@, [file |-> file_path, what |-> what]),
                !.success_count = IF what = "success" THEN @ + 1 ELSE @,
                !.error_count = IF what = "error" THEN @ + 1 ELSE @]

Looping(mode) ==
    /\ batch # <<>>
    /\ batch.mode = mode
    /\ ~batch.done
    /\ batch.i < Len(batch.files)

\* decompress_batch, lines 59-89: one iteration
DecompressFile ==
    /\ Looping("decompress")
    /\ LET file_path == batch.files[batch.i + 1]
           output_path == Joined(batch.output_dir, file_path, "_decompressed",
                                 file_path[2])
       IN  IF file_path \notin DOMAIN disk
           THEN /\ batch' = Counted(batch, file_path, "error")
                /\ UNCHANGED <<disk, meta>>
           ELSE IF batch.about[file_path] \in {"compressed", "undecodable"}
           THEN IF batch.about[file_path] = "undecodable"
                THEN /\ batch' = Counted(batch, file_path, "error")
                     /\ UNCHANGED <<disk, meta>>
                ELSE /\ batch' = Counted(batch, file_path, "success")
                     /\ disk' = SetAttr(disk, output_path, disk[file_path])
                     /\ meta' = SetAttr(meta, output_path,
                                        SavedMeta(meta[file_path], disk[file_path]))
           ELSE /\ batch' = Counted(batch, file_path, "skipped")
                /\ UNCHANGED <<disk, meta>>
    /\ UNCHANGED <<strHash, calls, imageVars, threadVars>>

\* anonymize_batch, lines 107-128: one iteration, anonymize_dicom included
AnonymizeFile(h) ==
    /\ Looping("anonymize")
    /\ LET file_path == batch.files[batch.i + 1]
           output_file ==
               IF batch.output_dir # <<>>
               THEN Joined(batch.output_dir, file_path, "_anonymized", file_path[2])
               ELSE DefaultOutput(file_path)
       IN  IF file_path \notin DOMAIN disk
           THEN /\ batch' = Counted(batch, file_path, "error")
                /\ UNCHANGED <<disk, meta, strHash>>
           ELSE /\ HashIs(ThisProcess, OriginalPatientId(disk[file_path]), h)
                /\ strHash' = [strHash EXCEPT ![ThisProcess] =
                                 SetAttr(@, OriginalPatientId(disk[file_path]), h)]
                /\ \E out \in {Transform(disk[file_path], DefaultPrefix, h)} :
                      /\ disk' = IF out.ok THEN SetAttr(disk, output_file, out.ds)
                                 ELSE disk
                      /\ meta' = IF out.ok
                                 THEN SetAttr(meta, output_file,
                                              SavedMeta(meta[file_path], out.ds))
                                 ELSE meta
                      /\ batch' = Counted(batch, file_path,
                                    IF Truthy(out) THEN "success" ELSE "error")
    /\ UNCHANGED <<calls, imageVars, threadVars>>

\* convert_batch, lines 145-166: one iteration, convert_dicom_to_image
\* included, which returns None for a file without decodable pixel data
ConvertFile ==
    /\ Looping("convert")
    /\ LET file_path == batch.files[batch.i + 1]
           output_file == Joined(batch.output_dir, file_path, "", ".png")
       IN  IF \/ file_path \notin DOMAIN disk
              \/ batch.about[file_path] \in {"undecodable", "no_pixels"}
           THEN /\ batch' = Counted(batch, file_path, "error")
                /\ disk' = disk
                /\ meta' = meta
           ELSE \E converted \in {convert_dicom_to_image(image, 0, <<>>, <<>>)} :
                   IF converted.raised
                   THEN /\ batch' = Counted(batch, file_path, "error")
                        /\ disk' = disk
                        /\ meta' = meta
                   ELSE /\ batch' = Counted(batch, file_path, "success")
                        /\ disk' = SetAttr(disk, output_file,
                                           [image |-> converted.out])
                        \* an image file has no file meta information
                        /\ meta' = SetAttr(meta, output_file, <<>>)
    /\ UNCHANGED <<strHash, calls, imageVars, threadVars>>

BatchModes == {"decompress", "anonymize", "convert"}

\* lines 91-93, 130-132, 168-170: the summary after the loop
Summarize ==
    /\ batch # <<>>
    /\ batch.mode \in BatchModes
    /\ ~batch.done
    /\ batch.i = Len(batch.files)
    /\ batch' = [batch EXCEPT !.done = TRUE]
    /\ UNCHANGED <<anonVars, imageVars, threadVars>>

BatchFrames == {<< <<>> >>, << <<0, 1>> >>, << <<-2>>, <<1>> >>}
BatchImages ==
    {ds \in Datasets :
        /\ ds.pixel_array.frames \in BatchFrames
        /\ ds.tags.WindowCenter = <<>> /\ ds.tags.WindowWidth = <<>>
        /\ ds.tags.PhotometricInterpretation = <<>>}

BatchInit ==
    /\ \E pid \in {"P1", ""}, pattern \in {PatternModulus, PatternModulus + 1} :
          disk = [f \in {FileA, FileB} |->
                    IF f = FileA THEN Record(pid, pattern, 1, 1, 1)
                    ELSE Related("instance", pid, PatternModulus, 1)]
    /\ meta = [f \in DOMAIN disk |-> FileMeta(disk[f])]
    /\ strHash = [p \in Procs |-> <<>>]
    /\ calls = <<>>
    /\ image \in BatchImages
    /\ build \in {[cast |-> cast, year |-> "padded"] : cast \in Casts}
    /\ outcome = <<>>
    /\ threads = <<>>
    /\ locals = <<>>
    /\ \E mode \in BatchModes, files \in BatchLists, output_dir \in OutputDirs,
          about \in [{FileA, FileB} -> FileKinds] :
          batch = [mode |-> mode, files |-> files, output_dir |-> output_dir,
                   about |-> about, i |-> 0, success_count |-> 0,
                   error_count |-> 0, outcomes |-> <<>>, done |-> FALSE]

BatchNext ==
    \/ DecompressFile
    \/ \E h \in OffsetSamples : AnonymizeFile(h)
    \/ ConvertFile
    \/ Summarize

BatchSpec == BatchInit /\ [][BatchNext]_vars

-----------------------------------------------------------------------------
(* organize_dicom.py: one run of an organize mode                          *)
(*                                                                         *)
(* A path of this section is <<directory, name, extension>>; the text of   *)
(* an element is the sequence of its characters, so that sanitize_filename *)
(* is computed character by character.  The run is held in `batch`, like   *)
(* the loops of batch_process.py.                                          *)

MaxNameLength == 100
SeriesDigits == 3
InstanceDigits == 4

Unknown == <<"U", "n", "k", "n", "o", "w", "n">>
Study == <<"S", "t", "u", "d", "y">>
Series == <<"S", "e", "r", "i", "e", "s">>

RECURSIVE Str(_)
\* the string of a sequence of characters
Str(chars) == IF chars = <<>> THEN "" ELSE Head(chars) \o Str(Tail(chars))

invalid_chars == {"<", ">", ":", "\"", "/", "\\", "|", "?", "*"}

RECURSIVE LStrip(_)
LStrip(chars) ==
    IF chars # <<>> /\ Head(chars) = " " THEN LStrip(Tail(chars)) ELSE chars

RECURSIVE RStrip(_)
RStrip(chars) ==
    IF chars # <<>> /\ chars[Len(chars)] = " "
    THEN RStrip(SubSeq(chars, 1, Len(chars) - 1)) ELSE chars

\* ' '.join(name.split())
RECURSIVE JoinSplit(_)
JoinSplit(chars) ==
    LET stripped == LStrip(chars)
    IN  IF stripped = <<>> THEN <<>>
        ELSE IF Head(stripped) # " "
        THEN <<Head(stripped)>> \o
             (IF Tail(stripped) # <<>> /\ Head(Tail(stripped)) = " "
              THEN (IF LStrip(Tail(stripped)) = <<>> THEN <<>>
                    ELSE <<" ">> \o JoinSplit(LStrip(Tail(stripped))))
              ELSE JoinSplit(Tail(stripped)))
        ELSE <<>>

\* lines 24-53
sanitize_filename(name) ==
    IF name = <<>> \/ name = <<"N", "/", "A">> THEN Unknown
    ELSE LET stripped == RStrip(LStrip(name))
             replaced == [k \in DOMAIN stripped |->
                            IF stripped[k] \in invalid_chars THEN "_"
                            ELSE stripped[k]]
             joined == JoinSplit(replaced)
             limited == IF Len(joined) > MaxNameLength
                        THEN SubSeq(joined, 1, MaxNameLength) ELSE joined
         IN  IF limited # <<>> THEN limited ELSE Unknown

\* c.isdigit() for every character, of a text that has one
AllDigits(chars) == chars # <<>> /\ \A k \in DOMAIN chars : IsDigit(chars[k])

\* f"{text:0>width}" and f"{n:0{width}d}"
RECURSIVE ZeroPadded(_, _)
ZeroPadded(chars, width) ==
    IF Len(chars) >= width THEN chars ELSE ZeroPadded(<<"0">> \o chars, width)

\* os.path.join(dest_dir, ...)
JoinPath(parts) ==
    LET joined[k \in 1..Len(parts)] ==
            IF k = 1 THEN parts[1] ELSE joined[k - 1] \o "/" \o parts[k]
    IN  joined[Len(parts)]

\* dataset.get(tag, default), sanitized, as a string
Sanitized(ds, tag, default) == Str(sanitize_filename(Get(ds, tag, default)))

\* lines 78-86
PatientDest(dest_dir, file_path, ds) ==
    <<JoinPath(<<dest_dir, Sanitized(ds, "PatientName", Unknown),
                 Sanitized(ds, "PatientID", Unknown)>>),
      file_path[2], file_path[3]>>

\* lines 126-136
StudyDest(dest_dir, file_path, ds) ==
    <<JoinPath(<<dest_dir, Sanitized(ds, "PatientName", Unknown),
                 Sanitized(ds, "StudyDate", Unknown) \o "_"
                   \o Sanitized(ds, "StudyDescription", Study)>>),
      file_path[2], file_path[3]>>

\* lines 243-251
ModalityDest(dest_dir, file_path, ds) ==
    <<JoinPath(<<dest_dir, Sanitized(ds, "Modality", Unknown),
                 Sanitized(ds, "PatientName", Unknown)>>),
      file_path[2], file_path[3]>>

\* lines 198-203: the first of dest_file, dest_file_1, dest_file_2, ... that
\* does not exist
FreeName(files, dest_file) ==
    IF dest_file \notin DOMAIN files THEN dest_file
    ELSE LET Numbered(counter) ==
                 <<dest_file[1], dest_file[2] \o "_" \o DecimalStr(counter),
                   dest_file[3]>>
         IN  Numbered(Min({counter \in 1..Cardinality(DOMAIN files) + 1 :
                              Numbered(counter) \notin DOMAIN files}))

\* lines 176-203
SeriesDest(files, dest_dir, file_path, ds) ==
    LET series_num == sanitize_filename(Get(ds, "SeriesNumber", <<"0">>))
        series_desc == Sanitized(ds, "SeriesDescription", Series)
        series_folder ==
            (IF AllDigits(series_num)
             THEN Str(ZeroPadded(series_num, SeriesDigits))
             ELSE Str(series_num)) \o "_" \o series_desc
        series_dir == JoinPath(<<dest_dir, Sanitized(ds, "PatientName", Unknown),
                                 Sanitized(ds, "StudyDate", Unknown),
                                 series_folder>>)
        \* `if instance_num`: the default '0' is a true string, the number 0
        \* of an element is false
        numbered == "InstanceNumber" \in DOMAIN ds => ds["InstanceNumber"] # 0
        dest_file ==
            IF numbered
            THEN <<series_dir,
                   Str(ZeroPadded(DecimalChars(Get(ds, "InstanceNumber", 0)),
                                  InstanceDigits)),
                   file_path[3]>>
            ELSE <<series_dir, file_path[2], file_path[3]>>
    IN  FreeName(files, dest_file)

\* shutil.copy2(src, dst) or shutil.move(src, dst) on a map of the files:
\* an existing dst is replaced.
Placed(files, src, dst, copy_mode) ==
    [p \in (DOMAIN files \cup {dst}) \ (IF copy_mode THEN {} ELSE {src}) |->
        IF p = dst THEN files[src] ELSE files[p]]

OrganizeModes == {"patient", "study", "series", "modality"}

\* One iteration of the loop of a mode: lines 73-99, 122-149, 172-216 and
\* 239-264.
OrganizeFile(mode, dest_file) ==
    /\ Looping(mode)
    /\ LET file_path == batch.files[batch.i + 1]
       IN  IF file_path \in batch.unreadable
           THEN /\ batch' = [batch EXCEPT !.i = @ + 1, !.error_count = @ + 1]
                /\ UNCHANGED <<disk, meta>>
           ELSE /\ batch' = [batch EXCEPT !.i = @ + 1, !.organized_count = @ + 1]
                /\ disk' = Placed(disk, file_path, dest_file, batch.copy_mode)
                /\ meta' = Placed(meta, file_path, dest_file, batch.copy_mode)
    /\ UNCHANGED <<strHash, calls, imageVars, threadVars>>

Current == disk[batch.files[batch.i + 1]]

OrganizeByPatient ==
    /\ Looping("patient")
    /\ OrganizeFile("patient",
          PatientDest(batch.dest_dir, batch.files[batch.i + 1], Current))

OrganizeByStudy ==
    /\ Looping("study")
    /\ OrganizeFile("study",
          StudyDest(batch.dest_dir, batch.files[batch.i + 1], Current))

OrganizeBySeries ==
    /\ Looping("series")
    /\ OrganizeFile("series",
          SeriesDest(disk, batch.dest_dir, batch.files[batch.i + 1], Current))

OrganizeByModality ==
    /\ Looping("modality")
    /\ OrganizeFile("modality",
          ModalityDest(batch.dest_dir, batch.files[batch.i + 1], Current))

\* lines 101-103, 151-153, 218-220, 266-268
ReportOrganized ==
    /\ batch # <<>>
    /\ batch.mode \in OrganizeModes
    /\ ~batch.done
    /\ batch.i = Len(batch.files)
    /\ batch' = [batch EXCEPT !.done = TRUE]
    /\ UNCHANGED <<anonVars, imageVars, threadVars>>

\* The source tree: two files of one base name, one of them in a
\* subdirectory that only a recursive run visits, and a third file.
SourceTop == <<"src", "x", ".dcm">>
SourceSub == <<"src/sub", "x", ".dcm">>
SourceOther == <<"src", "y", ".dcm">>
SourceFiles(recursive) ==
    IF recursive THEN {SourceTop, SourceSub, SourceOther}
    ELSE {SourceTop, SourceOther}

\* glob.glob gives the paths in the order of the directory listing.
Orders(paths) ==
    {order \in [1..Cardinality(paths) -> paths] :
        \A j, k \in DOMAIN order : j # k => order[j] # order[k]}

NameSamples == {<<"A", "/", "B">>, <<"A", "_", "B">>, <<" ">>}
InstanceSamples == {<<>>, <<0>>, <<1>>}

\* The header of a source file; instance is <<>> for a file without
\* InstanceNumber.
Header(uid, name, instance) ==
    [tag \in {"SOPInstanceUID", "PatientName", "PatientID", "StudyDate",
              "SeriesNumber", "Modality"}
             \cup (IF instance = <<>> THEN {} ELSE {"InstanceNumber"}) |->
        CASE tag = "SOPInstanceUID" -> uid
          [] tag = "PatientName" -> name
          [] tag = "PatientID" -> <<"P", "1">>
          [] tag = "StudyDate" -> DateSample("StudyDate", 1)
          [] tag = "SeriesNumber" -> <<"1">>
          [] tag = "Modality" -> <<"C", "T">>
          [] OTHER -> instance[1]]

\* Where the mode puts a file in an empty destination.
FirstDest(mode, dest_dir, file_path, ds) ==
    CASE mode = "patient" -> PatientDest(dest_dir, file_path, ds)
      [] mode = "study" -> StudyDest(dest_dir, file_path, ds)
      [] mode = "series" -> SeriesDest(<<>>, dest_dir, file_path, ds)
      [] OTHER -> ModalityDest(dest_dir, file_path, ds)

OrganizeInit ==
    /\ \E mode \in OrganizeModes, copy_mode \in BOOLEAN, recursive \in BOOLEAN,
          sub_name \in NameSamples, top_instance \in InstanceSamples,
          sub_instance \in InstanceSamples, present \in BOOLEAN,
          locked \in SUBSET {SourceOther} :
          \E files \in Orders(SourceFiles(recursive)) :
             LET source ==
                     [p \in {SourceTop, SourceSub, SourceOther} |->
                        CASE p = SourceTop ->
                                Header("1.2.3.1.1", <<"A", "/", "B">>, top_instance)
                          [] p = SourceSub ->
                                Header("1.2.3.1.2", sub_name, sub_instance)
                          [] OTHER ->
                                Header("1.2.3.1.3", <<"A", "/", "B">>, <<1>>)]
                 old == FirstDest(mode, "dest", SourceTop, source[SourceTop])
             IN  /\ disk = IF present
                           THEN source @@ (old :> Header("1.2.9", <<"O">>, <<>>))
                           ELSE source
                 /\ batch = [mode |-> mode, files |-> files,
                             copy_mode |-> copy_mode, dest_dir |-> "dest",
                             unreadable |-> locked,
                             present |-> IF present THEN {old} ELSE {},
                             i |-> 0, organized_count |-> 0, error_count |-> 0,
                             done |-> FALSE]
    /\ meta = [f \in DOMAIN disk |-> FileMeta(disk[f])]
    /\ strHash = <<>>
    /\ calls = <<>>
    /\ image = <<>>
    /\ build \in {[cast |-> "wrap", year |-> "padded"]}
    /\ outcome = <<>>
    /\ threads = <<>>
    /\ locals = <<>>

OrganizeNext ==
    \/ OrganizeByPatient
    \/ OrganizeByStudy
    \/ OrganizeBySeries
    \/ OrganizeByModality
    \/ ReportOrganized

OrganizeSpec == OrganizeInit /\ [][OrganizeNext]_vars

-----------------------------------------------------------------------------
(* Claims *)

\* The calls that read a dataset, and those among them that returned one.
ReadCalls == {i \in 1..Len(calls) : calls[i].read}
ReturnedCalls == {i \in ReadCalls : calls[i].ret.ok}

Has(ds, tag) == tag \in DOMAIN ds

\* The value is an 8-digit YYYYMMDD date.
ParsesAsDate(value) == Len(value) = 8 /\ strptime(value).ok
Ordinal(value) ==
    LET date == strptime(value) IN ToOrdinal(date.y, date.m, date.d)

DateListOfClaims ==
    {"StudyDate", "SeriesDate", "AcquisitionDate", "ContentDate",
     "InstanceCreationDate", "PerformedProcedureStepStartDate"}
UidListOfClaims == {"StudyInstanceUID", "SeriesInstanceUID", "SOPInstanceUID"}

\* C1: whenever the input holds PatientBirthDate and StudyDate and both are
\* 8-digit dates, the PatientAge of the output is
\* (StudyDate - PatientBirthDate).days // 365 as three digits and 'Y'.
C1_AgeFromDates ==
    \A i \in ReadCalls :
        LET in == calls[i].input
            ret == calls[i].ret
        IN  (/\ Has(in, "PatientBirthDate") /\ Has(in, "StudyDate")
             /\ ParsesAsDate(in["PatientBirthDate"]) /\ ParsesAsDate(in["StudyDate"]))
            => /\ ret.ok
               /\ Has(ret.ds, "PatientAge")
               /\ ret.ds["PatientAge"] =
                    FormatAge((Ordinal(in["StudyDate"]) - Ordinal(in["PatientBirthDate"]))
                              \div 365)

\* C2: two calls, in one process or in two, on records with the same original
\* PatientID and the same prefix apply the same day offset: equal inputs give
\* equal outputs, and the days between the StudyDates of two records of one
\* subject are the same after anonymization as before.
C2_OffsetDeterministic ==
    \A i \in ReturnedCalls, j \in ReturnedCalls :
        LET a == calls[i]
            b == calls[j]
        IN  (/\ a.prefix = b.prefix
             /\ Has(a.input, "PatientID") /\ Has(b.input, "PatientID")
             /\ a.input["PatientID"] = b.input["PatientID"])
            => /\ a.input = b.input => a.ret = b.ret
               /\ (/\ Has(a.input, "StudyDate") /\ Has(b.input, "StudyDate")
                   /\ ParsesAsDate(a.input["StudyDate"])
                   /\ ParsesAsDate(b.input["StudyDate"])
                   /\ ParsesAsDate(a.ret.ds["StudyDate"])
                   /\ ParsesAsDate(b.ret.ds["StudyDate"]))
                  => Ordinal(a.ret.ds["StudyDate"]) - Ordinal(b.ret.ds["StudyDate"])
                     = Ordinal(a.input["StudyDate"]) - Ordinal(b.input["StudyDate"])

\* Call j anonymizes, with the same prefix, the file call i wrote.
Reapplied(i, j) ==
    /\ i \in ReturnedCalls /\ j \in ReadCalls /\ i < j
    /\ calls[j].input_file = calls[i].output_file
    /\ calls[j].input = calls[i].ret.ds
    /\ calls[j].prefix = calls[i].prefix

SameIn(first, second, tags) ==
    \A t \in tags :
        /\ Has(first, t) <=> Has(second, t)
        /\ Has(first, t) => first[t] = second[t]

\* C3: anonymizing the output of anonymize_dicom again, with the same prefix,
\* changes no element but the shifted dates and PatientAge.
C3_SecondPassKeepsAllButDates ==
    \A i \in ReadCalls, j \in ReadCalls :
        Reapplied(i, j)
        => /\ calls[j].ret.ok
           /\ SameIn(calls[i].ret.ds, calls[j].ret.ds,
                     Keywords \ (DateListOfClaims \cup {"PatientAge"}))

\* C3, amended: anonymizing the output of anonymize_dicom again, with the same
\* prefix, changes no element but the shifted dates, PatientAge, PatientID and
\* the three regenerated UIDs.
C3_SecondPassKeepsRewrites ==
    \A i \in ReadCalls, j \in ReadCalls :
        Reapplied(i, j)
        => /\ calls[j].ret.ok
           /\ SameIn(calls[i].ret.ds, calls[j].ret.ds,
                     Keywords \ (DateListOfClaims \cup UidListOfClaims
                                 \cup {"PatientAge", "PatientID"}))

C3_Witness ==
    \E i \in ReadCalls, j \in ReadCalls :
        /\ Reapplied(i, j)
        /\ Has(calls[i].input, "PatientID") /\ Has(calls[i].input, "AccessionNumber")
        /\ Has(calls[j].ret.ds, "PatientName") /\ Has(calls[j].ret.ds, "PatientID")
        /\ calls[j].ret.ds["PatientID"] # calls[i].ret.ds["PatientID"]

\* C4: two records with the same original PatientID, anonymized with the same
\* prefix, get the same PatientID, and the same new UID for each of the three
\* UIDs whose original values are equal, whatever their other elements hold.
C4_SamePseudonymAndUids ==
    \A i \in ReturnedCalls, j \in ReturnedCalls :
        LET a == calls[i]
            b == calls[j]
        IN  (/\ a.prefix = b.prefix
             /\ Has(a.input, "PatientID") /\ Has(b.input, "PatientID")
             /\ a.input["PatientID"] = b.input["PatientID"])
            => /\ a.ret.ds["PatientID"] = b.ret.ds["PatientID"]
               /\ \A t \in UidListOfClaims :
                     (Has(a.input, t) /\ Has(b.input, t) /\ a.input[t] = b.input[t])
                     => /\ Has(a.ret.ds, t) /\ Has(b.ret.ds, t)
                        /\ a.ret.ds[t] = b.ret.ds[t]

C4_Witness ==
    \E i \in ReturnedCalls, j \in ReturnedCalls :
        LET a == calls[i]
            b == calls[j]
        IN  /\ a.prefix = b.prefix /\ a.proc # b.proc
            /\ Has(a.input, "PatientID") /\ Has(b.input, "PatientID")
            /\ a.input["PatientID"] = b.input["PatientID"]
            /\ Has(a.input, "StudyInstanceUID") /\ Has(b.input, "StudyInstanceUID")
            /\ a.input["StudyInstanceUID"] = b.input["StudyInstanceUID"]
            /\ Has(a.input, "SOPInstanceUID") /\ Has(b.input, "SOPInstanceUID")
            /\ a.input["SOPInstanceUID"] # b.input["SOPInstanceUID"]
            /\ Has(a.input, "PatientName") /\ Has(b.input, "PatientName")
            /\ a.input["PatientName"] # b.input["PatientName"]

SecondaryRemovalList ==
    {"AccessionNumber", "IssuerOfPatientID", "OtherPatientIDs", "OtherPatientNames",
     "PatientBirthName", "PatientInsurancePlanCodeSequence",
     "PatientPrimaryLanguageCodeSequence", "RequestingPhysician",
     "RequestingService", "RequestAttributesSequence",
     "ScheduledProcedureStepDescription", "PerformedProcedureStepDescription"}

C6_SecondaryListRemoved ==
    \A i \in ReturnedCalls :
        \A t \in SecondaryRemovalList :
            Has(calls[i].input, t) => ~Has(calls[i].ret.ds, t)

C6_Witness ==
    \E i \in ReturnedCalls :
        /\ SecondaryRemovalList \subseteq DOMAIN calls[i].input
        /\ DOMAIN calls[i].ret.ds # {}

\* C7: each element of the direct-identifier table that the input holds is, in
\* the output, 'ANONYMOUS^PATIENT' for PatientName, prefix + '_' + the hash of
\* the PatientID as it was for PatientID, and empty for every other one.
DirectIdentifierTable ==
    {"PatientName", "PatientID", "PatientBirthDate", "PatientSex", "PatientAge",
     "PatientWeight", "PatientSize", "PatientAddress", "PatientTelephoneNumbers",
     "PatientMotherBirthName", "MilitaryRank", "EthnicGroup", "Occupation",
     "AdditionalPatientHistory", "PatientComments", "ResponsiblePerson",
     "ResponsibleOrganization"}

C7_DirectIdentifiersRewritten ==
    \A i \in ReturnedCalls :
        LET in == calls[i].input
            out == calls[i].ret.ds
        IN  \A t \in DirectIdentifierTable :
                Has(in, t)
                => /\ Has(out, t)
                   /\ out[t] =
                        CASE t = "PatientName" -> "ANONYMOUS^PATIENT"
                          [] t = "PatientID" ->
                                calls[i].prefix \o "_"
                                \o generate_anonymous_id(in["PatientID"])
                          [] t = "PatientBirthDate" -> <<>>
                          [] OTHER -> ""

C7_Witness ==
    \E i \in ReturnedCalls :
        /\ DirectIdentifierTable \subseteq DOMAIN calls[i].input
        /\ calls[i].ret.ds["PatientID"] = "SITE_SHA16(P2)"

NameLike ==
    {"ReferringPhysicianName", "PhysiciansOfRecord", "PerformingPhysicianName",
     "OperatorsName", "InstitutionName", "InstitutionalDepartmentName", "StationName"}
AddressOrPhoneLike ==
    {"ReferringPhysicianAddress", "ReferringPhysicianTelephoneNumbers",
     "InstitutionAddress"}

\* C8: each element of the institutional/physician table that the input holds
\* is 'ANONYMIZED' in the output when it is name-like (department and station
\* name included), empty when it is address- or phone-like, and
\* ReferringPhysicianIdentificationSequence is absent.
C8_NameLikeAnonymized ==
    \A i \in ReturnedCalls :
        LET in == calls[i].input
            out == calls[i].ret.ds
        IN  /\ \A t \in NameLike :
                  Has(in, t) => Has(out, t) /\ out[t] = "ANONYMIZED"
            /\ \A t \in AddressOrPhoneLike :
                  Has(in, t) => Has(out, t) /\ out[t] = ""
            /\ ~Has(out, "ReferringPhysicianIdentificationSequence")

\* C8, amended: as C8, but InstitutionalDepartmentName and StationName are
\* empty in the output, like the address- and phone-like elements.
C8_StudyTableRewritten ==
    \A i \in ReturnedCalls :
        LET in == calls[i].input
            out == calls[i].ret.ds
        IN  /\ \A t \in NameLike \ {"InstitutionalDepartmentName", "StationName"} :
                  Has(in, t) => Has(out, t) /\ out[t] = "ANONYMIZED"
            /\ \A t \in AddressOrPhoneLike
                        \cup {"InstitutionalDepartmentName", "StationName"} :
                  Has(in, t) => Has(out, t) /\ out[t] = ""
            /\ ~Has(out, "ReferringPhysicianIdentificationSequence")

C8_Witness ==
    \E i \in ReturnedCalls :
        /\ NameLike \cup AddressOrPhoneLike \subseteq DOMAIN calls[i].input
        /\ Has(calls[i].input, "ReferringPhysicianIdentificationSequence")
        /\ calls[i].ret.ds["StationName"] = ""

\* C9: under one prefix a new UID is the root followed by
\* hash16(pseudonym + '_' + original UID), and the map from
\* (original PatientID, original UID) to the new UID is injective.
C9_UidSeededAndInjective ==
    /\ \A i \in ReturnedCalls :
          \A t \in UidListOfClaims :
              Has(calls[i].input, t)
              => /\ Has(calls[i].ret.ds, t)
                 /\ calls[i].ret.ds[t] =
                      "1.2.826.0.1.3680043.8.498."
                      \o generate_anonymous_id(
                            calls[i].prefix \o "_"
                            \o generate_anonymous_id(Get(calls[i].input, "PatientID", "UNKNOWN"))
                            \o "_" \o calls[i].input[t])
    /\ \A i \in ReturnedCalls, j \in ReturnedCalls :
          \A t \in UidListOfClaims, u \in UidListOfClaims :
              (/\ calls[i].prefix = calls[j].prefix
               /\ Has(calls[i].input, "PatientID") /\ Has(calls[j].input, "PatientID")
               /\ Has(calls[i].input, t) /\ Has(calls[j].input, u)
               /\ <<calls[i].input["PatientID"], calls[i].input[t]>>
                  # <<calls[j].input["PatientID"], calls[j].input[u]>>)
              => calls[i].ret.ds[t] # calls[j].ret.ds[u]

\* One StudyInstanceUID under two PatientIDs, and two UIDs of one patient.
C9_Witness ==
    \E i \in ReturnedCalls, j \in ReturnedCalls :
        /\ calls[i].prefix = calls[j].prefix
        /\ Has(calls[i].input, "PatientID") /\ Has(calls[j].input, "PatientID")
        /\ calls[i].input["PatientID"] # calls[j].input["PatientID"]
        /\ Has(calls[i].input, "StudyInstanceUID") /\ Has(calls[j].input, "StudyInstanceUID")
        /\ calls[i].input["StudyInstanceUID"] = calls[j].input["StudyInstanceUID"]
        /\ calls[i].ret.ds["StudyInstanceUID"] # calls[j].ret.ds["StudyInstanceUID"]
        /\ Has(calls[i].input, "SOPInstanceUID")
        /\ calls[i].ret.ds["SOPInstanceUID"] # calls[i].ret.ds["StudyInstanceUID"]

\* C10: whatever optional elements the input holds and whatever the values of
\* its dates, the call runs to save_as and returns the dataset it saved.
C10_NeverAborts ==
    \A i \in ReadCalls :
        /\ calls[i].ret.ok
        /\ calls[i].output_file \in DOMAIN disk
        /\ i = Len(calls) => disk[calls[i].output_file] = calls[i].ret.ds

\* A record without PatientID whose dates include an empty one and one that
\* is no date, which the call empties.
C10_Witness ==
    \E i \in ReadCalls :
        LET in == calls[i].input
        IN  /\ ~Has(in, "PatientID")
            /\ Has(in, "ContentDate") /\ ~strptime(in["ContentDate"]).ok
            /\ calls[i].ret.ok /\ calls[i].ret.ds["ContentDate"] = <<>>
            /\ Has(in, "InstanceCreationDate") /\ in["InstanceCreationDate"] = <<>>


\* C11: a call of anonymize_dicom on an input that cannot be read does not
\* return normally: the error propagates to the caller, and cmd_anonymize
\* does not go on to print its success line.
C11_UnreadableIsFatal ==
    \A i \in 1..Len(calls) :
        ~calls[i].read => calls[i].raised /\ ~calls[i].reported

\* The completed call, when it is one of window_frame that returned.
Windowed == outcome # <<>> /\ outcome.op = "window_frame" /\ ~outcome.raised
DerivedWindow == Windowed /\ outcome.mode \in {"tags", "auto"}

\* C12: every (center, width) that _derive_window returns has width >= 1,
\* with WindowCenter/WindowWidth tags and without, so window_frame never
\* works with a derived width of 0.
C12_DerivedWidthAtLeastOne == DerivedWindow => outcome.width >= 1

\* The fraction <<n, d>>, d > 0, lies in [0, 255].
InUInt8Range(x) == 0 <= x[1] /\ x[1] <= UInt8Max * x[2]

\* C13: for every frame and every window, derived or passed as any integers,
\* each rescaled sample lies in [0, 255] before the conversion to uint8, so
\* the conversion never wraps around.
C13_RescaledInRange ==
    Windowed => \A i \in DOMAIN outcome.rescaled : InUInt8Range(outcome.rescaled[i])

Monochrome1 == image.tags["PhotometricInterpretation"] = <<"MONOCHROME1">>
Uniform(frame) == Len(frame) > 0 /\ \A i \in DOMAIN frame : frame[i] = frame[1]

\* The completed call is window_frame without an explicit window, on a
\* frame of the dataset that is uniform.
UniformDerived ==
    /\ outcome # <<>> /\ outcome.op = "window_frame"
    /\ (outcome.window_center = <<>> \/ outcome.window_width = <<>>)
    /\ LET got == get_frame(image.pixel_array, outcome.frame_index)
       IN  ~got.raised /\ Uniform(got.frame)

\* C14 (as stated): on a uniform frame _derive_window followed by
\* window_frame completes without error, the divisor is not 0, and every
\* output sample is 0, or 255 under MONOCHROME1.
C14_UniformFrameBlack ==
    UniformDerived =>
        /\ ~outcome.raised
        /\ outcome.divisor # 0
        /\ \A i \in DOMAIN outcome.out :
              outcome.out[i] = IF Monochrome1 THEN UInt8Max ELSE 0

\* C14 (amended): on a uniform frame _derive_window followed by window_frame
\* completes without error, the divisor is not 0 and all output samples are
\* equal; they are 0, or 255 under MONOCHROME1, when the window is derived
\* from the frame (WindowCenter or WindowWidth missing).
C14_UniformFrameFlat ==
    UniformDerived =>
        /\ ~outcome.raised
        /\ outcome.divisor # 0
        /\ \A i \in DOMAIN outcome.out : outcome.out[i] = outcome.out[1]
        /\ outcome.mode = "auto" =>
              \A i \in DOMAIN outcome.out :
                 outcome.out[i] = IF Monochrome1 THEN UInt8Max ELSE 0

C14_Witness ==
    /\ UniformDerived /\ ~outcome.raised
    /\ Len(outcome.frame) > 1
    /\ outcome.mode = "auto" /\ Monochrome1
    /\ outcome.out[1] = UInt8Max

\* The dataset with another PhotometricInterpretation.
WithPhotometric(ds, photometric) ==
    [ds EXCEPT !.tags["PhotometricInterpretation"] = photometric]
Rerun(photometric) ==
    window_frame(WithPhotometric(image, photometric), outcome.frame_index,
                 outcome.window_center, outcome.window_width)

\* C15: for every frame and window, the output of window_frame under
\* MONOCHROME1 is, sample by sample, 255 minus the output for the same
\* frame and window under any other photometric interpretation, and it
\* stays within [0, 255].
C15_Monochrome1IsComplement ==
    Windowed =>
        \A photometric \in Photometrics \ {<<"MONOCHROME1">>} :
            LET inverted == Rerun(<<"MONOCHROME1">>).out
                plain == Rerun(photometric).out
            IN  /\ outcome.out = IF Monochrome1 THEN inverted ELSE plain
                /\ DOMAIN inverted = DOMAIN plain
                /\ \A i \in DOMAIN plain :
                      /\ inverted[i] = UInt8Max - plain[i]
                      /\ 0 <= inverted[i] /\ inverted[i] <= UInt8Max

C15_Witness ==
    /\ Windowed /\ Monochrome1
    /\ Len(outcome.out) > 1
    /\ \E i \in DOMAIN outcome.out : outcome.out[i] \notin {0, UInt8Max}
    /\ \E i, j \in DOMAIN outcome.out : outcome.out[i] # outcome.out[j]

\* The completed call, when it is one of calculate_statistics.
StatisticsCall == outcome # <<>> /\ outcome.op = "calculate_statistics"
Buffer == flatten(image.pixel_array)

\* C16: on a non-empty buffer of N samples calculate_statistics returns
\* total_pixels = N, min <= p1 <= p5 <= p25 <= median <= p75 <= p95 <= p99
\* <= max, range = max - min and iqr = p75 - p25.
C16_StatisticsOrdered ==
    StatisticsCall /\ Len(Buffer) > 0 =>
        /\ ~outcome.raised
        /\ outcome.total_pixels = Len(Buffer)
        /\ Float(outcome.min) <= outcome.p1
        /\ outcome.p1 <= outcome.p5
        /\ outcome.p5 <= outcome.p25
        /\ outcome.p25 <= outcome.median
        /\ outcome.median <= outcome.p75
        /\ outcome.p75 <= outcome.p95
        /\ outcome.p95 <= outcome.p99
        /\ outcome.p99 <= Float(outcome.max)
        /\ outcome.range = outcome.max - outcome.min
        /\ outcome.iqr = outcome.p75 - outcome.p25

C16_Witness ==
    /\ StatisticsCall /\ ~outcome.raised
    /\ outcome.total_pixels = MaxSamples
    /\ Buffer[1] > Buffer[2]
    /\ Float(outcome.min) < outcome.p1
    /\ outcome.p25 < outcome.median /\ outcome.median < outcome.p75
    /\ outcome.p99 < Float(outcome.max)

StatisticsFields ==
    {"min", "max", "median", "p1", "p5", "p25", "p75", "p95", "p99",
     "total_pixels", "unique_values", "zero_pixels", "range", "iqr",
     "zero_percent"}

\* C17: calculate_statistics on a zero-sample buffer ends in an error and
\* returns no statistics record: no percentile of nothing is returned and
\* zero_percent is never computed from total_pixels = 0.
C17_EmptyBufferIsError ==
    StatisticsCall /\ Len(Buffer) = 0 =>
        /\ outcome.raised
        /\ DOMAIN outcome \cap StatisticsFields = {}

C17_Witness ==
    /\ StatisticsCall /\ Len(Buffer) = 0
    /\ outcome.raised
    /\ outcome.error = "ValueError: zero-size array to reduction operation"

\* The completed call, when it is one of get_frame on a stack of frames.
StackCall ==
    outcome # <<>> /\ outcome.op = "get_frame" /\ image.pixel_array.ndim > 2
InStack(frame_index) ==
    0 <= frame_index /\ frame_index < Shape0(image.pixel_array)

\* C18: on a stack of F frames get_frame returns frame i exactly when
\* 0 <= i < F and ends in an error for every other index, negative ones
\* included; it never returns another frame than the one asked for.
C18_FrameIndexChecked ==
    StackCall =>
        IF InStack(outcome.frame_index)
        THEN /\ ~outcome.raised
             /\ outcome.index = outcome.frame_index
             /\ outcome.frame = image.pixel_array.frames[outcome.frame_index + 1]
        ELSE outcome.raised

Finished(t) == threads # <<>> /\ threads[t].pc = "done"

\* What the invocation of thread t gives when nothing else runs.
Alone(t) ==
    LET args == threads[t].args
    IN  CASE threads[t].program = "anonymize_dicom" ->
                LET dataset == disk[args.input_file]
                    h == strHash[ThisProcess][OriginalPatientId(dataset)]
                    out == Transform(dataset, args.patient_prefix, h)
                IN  [ret |-> IF out.ok THEN Returned(out.ds) ELSE None,
                     written |-> out.ok, file |-> out.ds]
          [] threads[t].program = "window_frame" ->
                LET r == window_frame(args.dataset, args.frame_index,
                                      args.window_center, args.window_width)
                IN  [ret |-> IF r.raised
                             THEN [raised |-> TRUE, error |-> r.error]
                             ELSE [raised |-> FALSE, out |-> r.out]]
          [] OTHER ->
                [ret |-> calculate_statistics(args.dataset.pixel_array)]

\* C19: two invocations running concurrently in one process on distinct
\* records and distinct output paths share no mutable state: under every
\* interleaving of their steps each returns, and writes, exactly what it
\* returns and writes when it runs alone.
C19_ThreadsDoNotInterfere ==
    \A t \in Threads :
        Finished(t) =>
            /\ threads[t].ret = Alone(t).ret
            /\ threads[t].program = "anonymize_dicom" /\ Alone(t).written =>
                  /\ DefaultOutput(threads[t].args.input_file) \in DOMAIN disk
                  /\ disk[DefaultOutput(threads[t].args.input_file)] = Alone(t).file

\* Thread 1 ran its whole transform while thread 2 was in the middle of its.
C19_Witness ==
    /\ Finished(1) /\ threads[1].program = "anonymize_dicom" /\ threads[1].ret.ok
    /\ threads[2].program = "anonymize_dicom" /\ threads[2].pc = "uids"
    /\ locals[1].dataset # locals[2].dataset
    /\ locals[1].original_patient_id = locals[2].original_patient_id

\* The date fields that the input of call i holds.
DatesOf(i) == DateListOfClaims \cap DOMAIN calls[i].input

\* The output value is the 8-digit date d days before the input value.
ShiftedBy(in, out, d) == ParsesAsDate(out) /\ Ordinal(out) = Ordinal(in) - d

\* C20 (as stated): every date field present in the input that parses as
\* YYYYMMDD is, in the output, that date minus one offset d of 0..364, the
\* same for all date fields of the record; every non-empty one that does
\* not parse is empty in the output.
C20_DatesShiftedOrEmptied ==
    \A i \in ReturnedCalls :
        \E d \in 0..HashModulus - 1 :
            \A tag \in DatesOf(i) :
                LET in == calls[i].input[tag]
                    out == calls[i].ret.ds[tag]
                IN  /\ ParsesAsDate(in) => ShiftedBy(in, out, d)
                    /\ in # <<>> /\ ~ParsesAsDate(in) => out = <<>>

\* C20 (amended): with d = hash(PatientID) % 365, a date field that strptime
\* accepts becomes the date d days earlier, as 8 digits when that date is of
\* year 1000 or later, and empty when it would be before 0001-01-01; a
\* non-empty value that strptime rejects becomes empty; an empty one stays
\* empty.  Between, the year is written as the platform's %Y writes it.
C20_DatesShiftedWhereRepresentable ==
    \A i \in ReturnedCalls :
        LET d == calls[i].offset
        IN  /\ 0 <= d /\ d < HashModulus
            /\ \A tag \in DatesOf(i) :
                  LET in == calls[i].input[tag]
                      out == calls[i].ret.ds[tag]
                  IN  IF in = <<>> \/ ~strptime(in).ok
                      THEN out = <<>>
                      ELSE IF Ordinal(in) - d < ToOrdinal(1, 1, 1)
                      THEN out = <<>>
                      ELSE IF Ordinal(in) - d >= ToOrdinal(1000, 1, 1)
                      THEN ShiftedBy(in, out, d)
                      ELSE out # <<>> /\ (d > 0 => out # in)

\* A call that moved an 8-digit date and a 7-digit one by d > 0 days, and
\* another that emptied a date of the first days of year 1.
C20_Witness ==
    /\ \E i \in ReturnedCalls :
          LET in == calls[i].input
              out == calls[i].ret.ds
          IN  /\ calls[i].offset > 0
              /\ Has(in, "StudyDate") /\ ParsesAsDate(in["StudyDate"])
              /\ ShiftedBy(in["StudyDate"], out["StudyDate"], calls[i].offset)
              /\ Has(in, "AcquisitionDate") /\ Len(in["AcquisitionDate"]) = 7
              /\ ShiftedBy(in["AcquisitionDate"], out["AcquisitionDate"], calls[i].offset)
    /\ \E i \in ReturnedCalls :
          /\ calls[i].offset > 0
          /\ Has(calls[i].input, "ContentDate")
          /\ ParsesAsDate(calls[i].input["ContentDate"])
          /\ calls[i].ret.ds["ContentDate"] = <<>>

\* The two window tags of the dataset, and whether both are there.
TagCenter == image.tags["WindowCenter"]
TagWidth == image.tags["WindowWidth"]
BothTags == TagCenter # <<>> /\ TagWidth # <<>>
BothGiven == outcome.window_center # <<>> /\ outcome.window_width # <<>>

\* p95 - p5 and max - min of the frame windowed, in hundredths and in units.
Spread == np_percentile(outcome.frame, 95) - np_percentile(outcome.frame, 5)
Extent == Max(Range(outcome.frame)) - Min(Range(outcome.frame))

\* The pair window_frame works with is the explicit one when both parts are
\* given, the tag pair when both tags are present, and the center of the
\* percentile branch otherwise.
WindowChosen ==
    /\ BothGiven =>
          /\ outcome.center = outcome.window_center[1]
          /\ outcome.width = outcome.window_width[1]
    /\ ~BothGiven /\ BothTags =>
          /\ outcome.center = Truncate(TagCenter[1])
          /\ outcome.width = Truncate(Max({Float(1), TagWidth[1]}))
    /\ ~BothGiven /\ ~BothTags =>
          outcome.center = Truncate(np_median(outcome.frame))

ConvenienceCall ==
    /\ outcome # <<>>
    /\ outcome.op \in {"display_statistics", "convert_dicom_to_image"}
    /\ image.pixel_array.ndim > 2

\* C22: in display_statistics and convert_dicom_to_image every frame number
\* outside [0, F) of a stack of F frames, too large or negative, is replaced
\* by 0 before the array is indexed: the frame used is the one requested or
\* frame 0, and the call does not fail because of the index.
C22_OutOfRangeFallsBackToFirst ==
    ConvenienceCall =>
        /\ ~outcome.raised
        /\ outcome.index = IF InStack(outcome.requested) THEN outcome.requested ELSE 0
        /\ outcome.frame = image.pixel_array.frames[outcome.index + 1]

\* The files attempted so far, in the order of the attempts.
Attempted == [k \in DOMAIN batch.outcomes |-> batch.outcomes[k].file]
Skipped == Cardinality({k \in DOMAIN batch.outcomes :
                           batch.outcomes[k].what = "skipped"})
InOrder ==
    /\ Attempted = SubSeq(batch.files, 1, batch.i)
    /\ batch.done => Attempted = batch.files
    /\ batch.i <= Len(batch.files)

\* C23 as stated: in every batch loop each file of the list is attempted
\* exactly once, in list order, whatever happened to the files before it,
\* and when the loop ends success_count + error_count is the number of
\* files of the list.
C23_EveryFileCounted ==
    batch # <<>> =>
        /\ InOrder
        /\ batch.done =>
              batch.success_count + batch.error_count = Len(batch.files)

\* C23, amended: every file is attempted exactly once, in list order, in
\* the three loops; anonymize_batch and convert_batch count each file as a
\* success or as an error, and decompress_batch counts neither for a file
\* that is already uncompressed, so that success_count + error_count is
\* the number of files less the files skipped.
C23_EveryFileCountedOrSkipped ==
    batch # <<>> =>
        /\ InOrder
        /\ batch.success_count + batch.error_count + Skipped = batch.i
        /\ \A k \in DOMAIN batch.outcomes :
              batch.outcomes[k].what = "skipped" =>
                 /\ batch.mode = "decompress"
                 /\ batch.outcomes[k].file \in DOMAIN disk
                 /\ batch.about[batch.outcomes[k].file]
                       \in {"uncompressed", "no_pixels"}

\* A loop that went on after a failure: an error, then a success, done.
C23_Witness ==
    /\ batch # <<>>
    /\ batch.done
    /\ \E k \in DOMAIN batch.outcomes :
          /\ batch.outcomes[k].what = "error"
          /\ \E later \in k + 1..Len(batch.outcomes) :
                batch.outcomes[later].what = "success"

ConsistentInput(call) ==
    /\ call.ret.ok
    /\ "SOPInstanceUID" \in DOMAIN call.input
    /\ meta[call.input_file] = FileMeta(call.input)

\* C25: after anonymize_dicom the original SOPInstanceUID occurs nowhere in
\* the saved record: when the input has MediaStorageSOPInstanceUID equal to
\* SOPInstanceUID, the saved file has the two equal as well, the file meta
\* copy being regenerated together with SOPInstanceUID.
C25_FileMetaRegenerated ==
    [][Len(calls') > Len(calls) =>
          LET call == calls'[Len(calls')]
          IN  ConsistentInput(call) =>
                 /\ meta'[call.output_file].MediaStorageSOPInstanceUID
                       = disk'[call.output_file]["SOPInstanceUID"]
                 /\ meta'[call.output_file].MediaStorageSOPInstanceUID
                       # call.input["SOPInstanceUID"]]_vars

\* The UID elements that call i regenerated from a seed of the table.
Regenerated(i) ==
    {tag \in Range(uid_tags) \cap DOMAIN calls[i].input :
        AnonymousId(calls[i].prefix, OriginalPatientId(calls[i].input))
            \o "_" \o calls[i].input[tag] \in DOMAIN HexDigest}

\* C26: every StudyInstanceUID, SeriesInstanceUID and SOPInstanceUID that
\* anonymize_dicom writes passes DicomValidator._validate_uids: it consists
\* of digits and dots only, has at most 64 characters and no leading or
\* trailing dot, so that validating the anonymized file adds no UID error.
C26_NewUidsValid ==
    \A i \in ReturnedCalls : \A tag \in Regenerated(i) :
        LET anonymous_id == AnonymousId(calls[i].prefix,
                                        OriginalPatientId(calls[i].input))
        IN  /\ calls[i].ret.ds[tag] = NewUid(anonymous_id, calls[i].input[tag])
            /\ UidErrors(NewUidChars(anonymous_id, calls[i].input[tag])) = {}

\* The completed call is one of the standalone converter or of the web
\* endpoint on a single 2D frame that holds samples.
StandaloneCall ==
    /\ outcome # <<>>
    /\ outcome.op \in {"convert_dicom_to_image", "get_image"}
    /\ image.pixel_array.ndim = 2
    /\ image.pixel_array.frames[1] # <<>>

\* What the core engine gives for the arguments of the standalone call.
CoreOutcome ==
    IF outcome.op = "get_image" THEN window_frame(image, 0, <<>>, <<>>)
    ELSE window_frame(image, 0, outcome.window_center, outcome.window_width)

\* C27: the windowing of the standalone converter (auto_window and
\* apply_windowing, and the same code inlined in get_image) is equivalent to
\* that of the core engine (_derive_window and window_frame): for every 2D
\* frame, every pair of tag hints and every (center, width) both derive the
\* same (center, width), neither divides by zero, and both give the same
\* 8-bit image.
C27_ConverterMatchesCore ==
    StandaloneCall =>
        /\ outcome.raised = CoreOutcome.raised
        /\ ~outcome.raised =>
              /\ outcome.center = CoreOutcome.center
              /\ outcome.width = CoreOutcome.width
              /\ outcome.divisor # 0
              /\ CoreOutcome.divisor # 0
              /\ outcome.out = CoreOutcome.out

\* C28: after anonymize_dicom no field of the date list that was present
\* with a parseable value keeps its value: for every original PatientID the
\* offset applied is at least one day, so that an original study, series
\* or acquisition date is never in the output.
C28_NoDateKept ==
    \A i \in ReturnedCalls :
        /\ calls[i].offset >= 1
        /\ \A tag \in DatesOf(i) :
              ParsesAsDate(calls[i].input[tag]) =>
                 calls[i].ret.ds[tag] # calls[i].input[tag]

InDestination(path) == path[1] # SourceTop[1] /\ path[1] # SourceSub[1]
Contents(files) == {files[p] : p \in DOMAIN files}

\* C29: in every organize mode, recursive runs with two source files of one
\* base name included, no destination file written earlier in the run or
\* already present is overwritten: a file of the destination tree stays what
\* it is, no content is lost in move mode, and after the run the number of
\* files placed in the destination tree is organized_count.
C29_NothingOverwritten ==
    [][/\ \A path \in DOMAIN disk :
             InDestination(path) =>
                path \in DOMAIN disk' /\ disk'[path] = disk[path]
       /\ Contents(disk) \subseteq Contents(disk')
       /\ batch'.done =>
             Cardinality({path \in DOMAIN disk' : InDestination(path)}
                            \ batch.present)
                = batch'.organized_count]_vars

\* A completed window_frame that does not invert.
PlainWindow ==
    /\ outcome # <<>>
    /\ outcome.op = "window_frame"
    /\ ~outcome.raised
    /\ ~Monochrome1

\* C30: for a fixed window with width >= 2 and a photometric interpretation
\* that is not inverted, window_frame is monotone in the sample value: of
\* two samples a <= b the output of a is at most that of b, every sample
\* <= center - width // 2 maps to 0 and every sample >= center + width // 2
\* maps to 255; with width 1 every sample maps to 0.
C30_WindowMonotone ==
    PlainWindow =>
        LET frame == outcome.frame
            out == outcome.out
            low == outcome.center - outcome.width \div 2
            high == outcome.center + outcome.width \div 2
        IN  /\ outcome.width >= 2 =>
                  /\ \A i, j \in DOMAIN frame :
                        frame[i] <= frame[j] => out[i] <= out[j]
                  /\ \A i \in DOMAIN frame :
                        /\ frame[i] <= low => out[i] = 0
                        /\ frame[i] >= high => out[i] = UInt8Max
            /\ outcome.width = 1 => \A i \in DOMAIN frame : out[i] = 0

====
